---- MODULE Spec2Model ----
(***************************************************************************)
(* A model of sakdb: the field record and its three-way merge              *)
(* (sakdb_fields.py), the session lifecycle over the git backend and the   *)
(* synchronisation protocol (sakdb_storage.py).                            *)
(*                                                                         *)
(* Python strings are sequences of one-character strings (with a few       *)
(* multi-character JSON tokens), so that encoding, decoding and the        *)
(* lexicographic key order are computed, not assumed.  An Optional value   *)
(* is a sequence of length 0 (None) or 1.                                  *)
(***************************************************************************)
EXTENDS Integers, Sequences, FiniteSets, TLC

VARIABLES
    commits,    \* the git object store: commit id -> [parents, tree]
    refs,       \* repository -> branch name -> Optional commit id
    graphs,     \* graph -> SakDbGraph / SakDbSession / SakDbNamespaceGit fields
    syncpc,     \* repository -> position of its running sync()
    hist,       \* history of the run (what the properties speak about)
    fn          \* arguments and result of a pure function under check

vars == <<commits, refs, graphs, syncpc, hist, fn>>

----------------------------------------------------------------------------
(* Bounds *)

MaxTs == 2          \* timestamps are drawn from 1..MaxTs
MaxLen == 2         \* field records given to merge have at most MaxLen fields

----------------------------------------------------------------------------
(* Optional values and small helpers *)

None == <<>>

Some(x) == <<x>>

Range(s) == {s[i] : i \in 1..Len(s)}

IndexOf(s, tok) ==
    IF \E i \in 1..Len(s) : s[i] = tok
    THEN CHOOSE i \in 1..Len(s) : s[i] = tok /\ \A j \in 1..(i - 1) : s[j] # tok
    ELSE 0

SeqsUpTo(S, n) == UNION {[1..m -> S] : m \in 0..n}

\* F of the value v, computed once
Let(v, F(_)) == F(v)

\* the rest F of an operation after the step r, unless r raised
AndThen(r, F(_)) == IF r.ok THEN F(r.w) ELSE r

----------------------------------------------------------------------------
(* Strings *)

PAYLOAD_SEPARATOR == "&"

QUOTE == "\""

Digits == <<"0", "1", "2", "3", "4", "5", "6", "7", "8", "9">>

\* Code points of the characters the model uses (Python compares str by code point).
CharCode(c) ==
    CASE c = "&" -> 38
      [] c = ":" -> 58
      [] c = "_" -> 95
      [] c = "_type" -> 95
      [] c = "version" -> 118
      [] c = "a" -> 97
      [] c = "b" -> 98
      [] c = "p" -> 112
      [] c = "q" -> 113
      [] c = "l" -> 108
      [] c = "d" -> 100
      [] c = "x" -> 120
      [] c = "y" -> 121
      [] c = "type" -> 116
      [] c \in Range(Digits) -> 47 + IndexOf(Digits, c)
      [] OTHER -> 0

RECURSIVE StrLess(_, _)
StrLess(s, t) ==
    IF t = <<>> THEN FALSE
    ELSE IF s = <<>> THEN TRUE
    ELSE IF Head(s) = Head(t) THEN StrLess(Tail(s), Tail(t))
    ELSE CharCode(Head(s)) < CharCode(Head(t))

\* sorted(set of str)
RECURSIVE sorted(_)
sorted(S) ==
    IF S = {} THEN <<>>
    ELSE LET m == CHOOSE x \in S : \A y \in S \ {x} : StrLess(x, y)
         IN  <<m>> \o sorted(S \ {m})

RECURSIVE NatToStr(_)
NatToStr(n) ==
    IF n < 10 THEN <<Digits[n + 1]>>
    ELSE NatToStr(n \div 10) \o <<Digits[(n % 10) + 1]>>

IsDigits(s) == s # <<>> /\ \A i \in 1..Len(s) : s[i] \in Range(Digits)

RECURSIVE StrToNat(_)
StrToNat(s) ==
    IF s = <<>> THEN 0
    ELSE 10 * StrToNat(SubSeq(s, 1, Len(s) - 1)) + (IndexOf(Digits, s[Len(s)]) - 1)

----------------------------------------------------------------------------
(* sakdb_fields.py: SakDbField, SakDbFields *)

\* The hex digest is modelled by a hex spelling of the payload (no collisions):
\* a digest holds neither the separator nor a quote.
HexDigest(payload) ==
    [i \in 1..Len(payload) |->
        IF payload[i] = "&" THEN "26" ELSE IF payload[i] = "\"" THEN "22" ELSE payload[i]]

payload_md5(payload) == <<"md5:">> \o HexDigest(payload)

SakDbField(payload, ts, key) ==
    [ts |-> ts, key |-> key, crc |-> payload_md5(payload), payload |-> payload]

get_by_key(fr, key) ==
    LET hits == {i \in 1..Len(fr) : fr[i].key = key}
    IN  IF hits = {} THEN None
        ELSE Some(fr[CHOOSE i \in hits : \A j \in hits : i <= j])

get_keys(fr) == [i \in 1..Len(fr) |-> fr[i].key]

UniqueKeys(fr) == \A i, j \in 1..Len(fr) : fr[i].key = fr[j].key => i = j

----------------------------------------------------------------------------
(* sakdb_fields.py: merge *)

choose_oldest(o, t) == IF o.ts < t.ts THEN o ELSE t

choose_theirs(o, t) == t

choose_ours(o, t) == o

choose_ours_on_tie(o, t) == IF o.ts >= t.ts THEN o ELSE t

\* "If both are available, just choose the newest": ours only when strictly newer.
choose_field(o, t) == IF o.ts > t.ts THEN o ELSE t

keys_of_ours(ours, theirs) == Range(get_keys(ours))

all_keys(ours, theirs) == Range(get_keys(ours)) \cup Range(get_keys(theirs))

merge_both(ours, theirs) ==
    LET keys == sorted(all_keys(ours, theirs))
        pick(key) ==
            LET o == get_by_key(ours, key)
                t == get_by_key(theirs, key)
            IN  IF o # None /\ t # None THEN choose_field(o[1], t[1])
                ELSE IF o # None THEN o[1]
                ELSE t[1]
    IN  [i \in 1..Len(keys) |-> pick(keys[i])]

merge_without_base(base, ours, theirs) ==
    IF base = None /\ ours # None /\ theirs # None THEN merge_both(ours[1], theirs[1])
    ELSE IF base = None /\ ours # None /\ theirs = None THEN ours[1]
    ELSE IF base = None /\ ours = None /\ theirs # None THEN theirs[1]
    ELSE <<>>

merge_one_side_sorted(base, ours, theirs) ==
    IF base # None /\ ours # None /\ theirs # None THEN merge_both(ours[1], theirs[1])
    ELSE IF base = None /\ ours # None /\ theirs # None THEN merge_both(ours[1], theirs[1])
    ELSE IF base = None /\ ours # None /\ theirs = None THEN merge_both(ours[1], <<>>)
    ELSE IF base = None /\ ours = None /\ theirs # None THEN merge_both(<<>>, theirs[1])
    ELSE <<>>

merge_base_as_third_side(base, ours, theirs) ==
    IF base # None /\ ours # None /\ theirs # None
    THEN merge_both(merge_both(base[1], ours[1]), theirs[1])
    ELSE merge_without_base(base, ours, theirs)

\* base, ours, theirs: Optional field records; the result is a field record.
merge(base, ours, theirs) ==
    IF base # None /\ ours # None /\ theirs # None THEN merge_both(ours[1], theirs[1])
    ELSE IF base = None /\ ours # None /\ theirs # None THEN merge_both(ours[1], theirs[1])
    ELSE IF base = None /\ ours # None /\ theirs = None THEN ours[1]
    ELSE IF base = None /\ ours = None /\ theirs # None THEN theirs[1]
    ELSE <<>>

----------------------------------------------------------------------------
(* sakdb_fields.py: sakdb_dumps, sakdb_loads *)

\* the two characters \" that json.dumps writes for a quote inside a string
ESCAPED_QUOTE == "\\\""

Escape(s) == [i \in 1..Len(s) |-> IF s[i] = QUOTE THEN ESCAPED_QUOTE ELSE s[i]]

Unescape(s) == [i \in 1..Len(s) |-> IF s[i] = ESCAPED_QUOTE THEN QUOTE ELSE s[i]]

\* json.dumps(s, separators=(",", ":")) of a str
JsonStr(s) == <<QUOTE>> \o Escape(s) \o <<QUOTE>>

\* json.dumps({"t": ts, "k": key, "c": crc}, separators=(",", ":"))
Header(f) ==
    <<"{", "t:">> \o NatToStr(f.ts) \o <<",k:">> \o JsonStr(f.key)
        \o <<",c:">> \o JsonStr(f.crc) \o <<"}">>

Line(f) == Header(f) \o <<PAYLOAD_SEPARATOR>> \o JsonStr(f.payload)

separator_in_line(f) == PAYLOAD_SEPARATOR \in Range(Line(f))

\* PAYLOAD_SEPARATOR in header
SeparatorInHeader(f) == PAYLOAD_SEPARATOR \in Range(Header(f))

\* [ok, text]: ok = FALSE is the raised exception.  The text is the sequence of
\* the lines of "\n".join(ret) + "\n"; with no field that is one empty line.
sakdb_dumps(fr) ==
    IF \E i \in 1..Len(fr) : SeparatorInHeader(fr[i])
    THEN [ok |-> FALSE, text |-> <<>>]
    ELSE [ok |-> TRUE,
          text |-> IF fr = <<>> THEN << <<>> >> ELSE [i \in 1..Len(fr) |-> Line(fr[i])]]

\* json.loads of the header: Optional [ts, key, crc].
ParseHeader(h) ==
    LET n == Len(h)
        ik == IndexOf(h, ",k:")
        ic == IndexOf(h, ",c:")
    IN  IF /\ n >= 9
           /\ h[1] = "{" /\ h[2] = "t:" /\ h[n] = "}"
           /\ ik > 3 /\ IsDigits(SubSeq(h, 3, ik - 1))
           /\ ic >= ik + 3 /\ n >= ic + 3
           /\ h[ik + 1] = QUOTE /\ h[ic - 1] = QUOTE
           /\ h[ic + 1] = QUOTE /\ h[n - 1] = QUOTE
           /\ QUOTE \notin Range(SubSeq(h, ik + 2, ic - 2))
           /\ QUOTE \notin Range(SubSeq(h, ic + 2, n - 2))
        THEN Some([ts |-> StrToNat(SubSeq(h, 3, ik - 1)),
                   key |-> Unescape(SubSeq(h, ik + 2, ic - 2)),
                   crc |-> Unescape(SubSeq(h, ic + 2, n - 2))])
        ELSE None

\* json.loads of the payload: Optional str.
ParsePayload(p) ==
    IF Len(p) >= 2 /\ p[1] = QUOTE /\ p[Len(p)] = QUOTE
       /\ QUOTE \notin Range(SubSeq(p, 2, Len(p) - 1))
    THEN Some(Unescape(SubSeq(p, 2, Len(p) - 1)))
    ELSE None

parse_at_last_separator(line) ==
    LET seps == {i \in 1..Len(line) : line[i] = PAYLOAD_SEPARATOR}
        at == IF seps = {} THEN 0 ELSE CHOOSE i \in seps : \A j \in seps : j <= i
        hd == ParseHeader(SubSeq(line, 1, at - 1))
        pl == ParsePayload(SubSeq(line, at + 1, Len(line)))
    IN  IF at = 0 \/ hd = None \/ pl = None THEN None
        ELSE Some([ts |-> hd[1].ts, key |-> hd[1].key, crc |-> hd[1].crc,
                   payload |-> pl[1]])

\* Optional field of one non-blank line; None is the raised exception.
ParseLine(line) ==
    LET at == IndexOf(line, PAYLOAD_SEPARATOR)
        hd == ParseHeader(SubSeq(line, 1, at - 1))
        pl == ParsePayload(SubSeq(line, at + 1, Len(line)))
    IN  IF at = 0 \/ hd = None \/ pl = None THEN None
        ELSE Some([ts |-> hd[1].ts, key |-> hd[1].key, crc |-> hd[1].crc,
                   payload |-> pl[1]])

\* [ok, val]: val is the Optional field record (None when no line holds a field).
sakdb_loads(text) ==
    Let(SelectSeq(text, LAMBDA l : l # <<>>), LAMBDA lines :
        Let([i \in 1..Len(lines) |-> ParseLine(lines[i])], LAMBDA parsed :
            IF \E i \in 1..Len(lines) : parsed[i] = None
            THEN [ok |-> FALSE, val |-> None]
            ELSE [ok |-> TRUE,
                  val |-> IF lines = <<>> THEN None
                          ELSE Some([i \in 1..Len(lines) |-> parsed[i][1]])]))

----------------------------------------------------------------------------
(* Inputs *)

Keys == {<<"a">>, <<"b">>}

Payloads == {<<"p">>, <<"q">>}

Fields == {SakDbField(p, t, k) : p \in Payloads, t \in 1..MaxTs, k \in Keys}

\* the field records of one side of a merge: every field carries the side's payload
SideRecords(payload) == SeqsUpTo({f \in Fields : f.payload = payload}, MaxLen)

Optional(S) == {None} \cup {Some(x) : x \in S}

----------------------------------------------------------------------------
(* The git object database as pygit2 presents it *)

VersionPath == "data/metadata/version"

\* the path of one data key of one object
MetaPath == "data/objects/k/meta"

ObjectPaths == {MetaPath}

Paths == {VersionPath} \cup ObjectPaths

EmptyTree == [p \in Paths |-> None]

\* a name that is not in repo.references
NoRef == 0

Master == "master"

Synced == "synced/master"

RemoteMaster == "origin/master"

RemoteSynced == "origin/synced/master"

SessionBranch == "session/sakdbsession"

\* session/<name>.<uuid4().hex[:7]>: the suffixes a run may draw
SuffixedBranches == {"session/sakdbsession.1"}

RefNames == {Master, Synced, RemoteMaster, RemoteSynced, SessionBranch} \cup SuffixedBranches

NoRefs == [n \in RefNames |-> NoRef]

RECURSIVE Ancestors(_, _)
Ancestors(cs, c) ==
    {c} \cup UNION {Ancestors(cs, cs[c].parents[i]) : i \in 1..Len(cs[c].parents)}

AncestorsOf(cs, heads) == UNION {Ancestors(cs, c) : c \in heads}

\* repo.create_commit without a reference update: the store with the new commit last
create_commit(cs, parents, tree) == Append(cs, [parents |-> parents, tree |-> tree])

\* git_merge_bases: the common ancestors that no other common ancestor descends from
MergeBases(cs, xs, ys) ==
    LET common == AncestorsOf(cs, xs) \cap AncestorsOf(cs, ys)
    IN  {c \in common : \A d \in common \ {c} : c \notin Ancestors(cs, d)}

\* The file libgit2 stores in a virtual merge base for a content conflict
\* (GIT_MERGE_FILE_FAVOR__CONFLICTED: the conflict file is the merge result).
ConflictFile(o, t) ==
    << <<"<<<<<<<">> >> \o o \o << <<"=======">> >> \o t \o << <<">>>>>>>">> >>

\* One path of a three-way tree merge: [conflict, blob].  A side equal to the
\* base is unchanged, equal sides agree; anything else is a conflict.  (For
\* blobs that differ three ways libgit2 first tries a line merge; it is clean
\* only when the two sides' changed line ranges are separated by an unchanged
\* line, which the records written here, sorted and over two keys, never are.)
Resolve3(b, o, t) ==
    IF o = t THEN [conflict |-> FALSE, blob |-> o]
    ELSE IF b = o THEN [conflict |-> FALSE, blob |-> t]
    ELSE IF b = t THEN [conflict |-> FALSE, blob |-> o]
    ELSE [conflict |-> TRUE, blob |-> None]

OrderedIds(S) ==
    LET RECURSIVE Ord(_)
        Ord(T) == IF T = {} THEN <<>>
                  ELSE LET m == CHOOSE x \in T : \A y \in T : x <= y
                       IN  <<m>> \o Ord(T \ {m})
    IN  Ord(S)

\* The ancestor tree of merge_commits(x, y); x and y are [tree, heads].  With
\* several merge bases the default (recursive) strategy merges them into a
\* virtual base, conflicts written into the file.
RECURSIVE BaseTree(_, _, _)
BaseTree(cs, x, y) ==
    Let(OrderedIds(MergeBases(cs, x.heads, y.heads)), LAMBDA bases :
        LET real(c) == [tree |-> cs[c].tree, heads |-> {c}]
            one(b, u, v) ==
                IF ~Resolve3(b, u, v).conflict THEN Resolve3(b, u, v).blob
                ELSE IF u = None THEN v
                ELSE IF v = None THEN u
                ELSE Some(ConflictFile(u[1], v[1]))
            vmerge(u, v) ==
                Let(BaseTree(cs, u, v), LAMBDA b :
                    [tree |-> [p \in Paths |-> one(b[p], u.tree[p], v.tree[p])],
                     heads |-> u.heads \cup v.heads])
            RECURSIVE fold(_, _)
            fold(acc, i) ==
                IF i > Len(bases) THEN acc ELSE fold(vmerge(acc, real(bases[i])), i + 1)
        IN  IF bases = <<>> THEN EmptyTree
            ELSE fold(real(bases[1]), 2).tree)

\* repo.merge_commits(ours, theirs): per path [conflict, blob], and the ancestor tree
merge_commits(cs, ours, theirs) ==
    Let(BaseTree(cs, [tree |-> cs[ours].tree, heads |-> {ours}],
                     [tree |-> cs[theirs].tree, heads |-> {theirs}]),
        LAMBDA b :
            [base |-> b,
             index |-> [p \in Paths |-> Resolve3(b[p], cs[ours].tree[p], cs[theirs].tree[p])]])

never_up_to_date(cs, ours, theirs) == FALSE

\* GIT_MERGE_ANALYSIS_UP_TO_DATE
up_to_date(cs, ours, theirs) == theirs \in Ancestors(cs, ours)

\* Decoding of an optional blob as do_merge does it: [ok, val]
LoadBlob(blob) == IF blob = None THEN [ok |-> TRUE, val |-> None] ELSE sakdb_loads(blob[1])

take_theirs(b, o, t) == [ok |-> TRUE, blob |-> t]

\* do_merge, one conflict of the merged index: the blobs are decoded, merged
\* and encoded.  [ok, blob]
resolve_conflict(b, o, t) ==
    Let(<<LoadBlob(b), LoadBlob(o), LoadBlob(t)>>, LAMBDA l :
        IF ~l[1].ok \/ ~l[2].ok \/ ~l[3].ok THEN [ok |-> FALSE, blob |-> None]
        ELSE Let(sakdb_dumps(merge(l[1].val, l[2].val, l[3].val)), LAMBDA d :
                 [ok |-> d.ok, blob |-> Some(d.text)]))

\* SakDbNamespaceGit.do_merge(synced_branch, theirs_branch) on the refs rf of one
\* repository; theirs is a commit id.  [ok, cs, rf]
do_merge(cs, rf, ours_name, theirs) ==
    IF up_to_date(cs, rf[ours_name], theirs) THEN [ok |-> TRUE, cs |-> cs, rf |-> rf]
    ELSE Let(merge_commits(cs, rf[ours_name], theirs), LAMBDA m :
         Let([p \in Paths |->
                IF m.index[p].conflict
                THEN resolve_conflict(m.base[p], cs[rf[ours_name]].tree[p], cs[theirs].tree[p])
                ELSE [ok |-> TRUE, blob |-> m.index[p].blob]],
             LAMBDA merged :
                IF \E p \in Paths : ~merged[p].ok
                THEN [ok |-> FALSE, cs |-> cs, rf |-> rf]
                ELSE Let(create_commit(cs, <<rf[ours_name], theirs>>,
                                       [p \in Paths |-> merged[p].blob]),
                         LAMBDA cs2 :
                            [ok |-> TRUE, cs |-> cs2,
                             rf |-> [rf EXCEPT ![ours_name] = Len(cs2)]])))

----------------------------------------------------------------------------
(* sakdb_storage.py: one graph with its git namespace, on one repository.   *)
(* A world w is [cs, rf, g]: the object store, the repository's refs and    *)
(* the graph.  An operation yields [ok, w]; ok = FALSE is a raised          *)
(* exception, w the state it leaves behind.                                 *)

NoChanges == [p \in Paths |-> None]

\* SakDbGraph() with its SakDbNamespaceGit, before the constructor's version check
NewGraph ==
    [current_session |-> None,      \* Optional session id
     touched |-> FALSE,             \* namespace.name in session.session_changes
     changes |-> NoChanges,         \* SakDbSessionChanges.changes
     order |-> <<>>,                \* the iteration order of changes (insertion order)
     index |-> None,                \* _current_session_index: Optional tree
     branch |-> None]               \* _current_session_branch: Optional name

Raise(w) == [ok |-> FALSE, w |-> w]

Return(w) == [ok |-> TRUE, w |-> w]

TreeAt(w, name) == w.cs[w.rf[name]].tree

\* SakDbNamespaceGit._read_blob
read_blob(w, name, path) == IF w.rf[name] = NoRef THEN None ELSE TreeAt(w, name)[path]

ReadRef(w) == IF w.g.branch # None THEN w.g.branch[1] ELSE Master

\* SakDbNamespaceGit._read (branch = None)
git_read(w, path) == read_blob(w, ReadRef(w), path)

\* SakDbSession.read_from_session
read_from_session(w, path) == IF w.g.touched THEN w.g.changes[path] ELSE None

\* SakDbNamespace.read_sakdb: [ok, val]
read_sakdb(w, path) ==
    IF w.g.current_session # None /\ read_from_session(w, path) # None
    THEN [ok |-> TRUE, val |-> read_from_session(w, path)]
    ELSE LoadBlob(git_read(w, path))

write_new_ts(value, previous) == value

\* "Do not update timestamp if the content didn't change": for each previous
\* field in turn, the first field of value with its key takes its ts when the crc agrees.
RECURSIVE keep_ts(_, _, _)
keep_ts(value, prev, i) ==
    IF i > Len(prev) THEN value
    ELSE LET j == IndexOf(get_keys(value), prev[i].key)
         IN  keep_ts(IF j # 0 /\ value[j].crc = prev[i].crc
                     THEN [value EXCEPT ![j].ts = prev[i].ts]
                     ELSE value,
                     prev, i + 1)

sanitized(value, previous) == IF previous = None THEN value ELSE keep_ts(value, previous[1], 1)

\* the FR that SakDbSessionChanges.write stores
staged(ours, theirs) == merge(None, ours, theirs)

\* SakDbSessionChanges.write
changes_write(g, path, value) ==
    LET previous == g.changes[path]
    IN  [g EXCEPT !.changes[path] = Some(staged(Some(sanitized(value, previous)), previous)),
                  !.order = IF previous = None THEN Append(g.order, path) ELSE g.order]

start_unsuffixed(w, suffix) ==
    IF w.g.index # None \/ w.g.branch # None THEN Raise(w)
    ELSE Return([w EXCEPT !.rf[SessionBranch] = w.rf[Master],
                          !.g.branch = Some(SessionBranch),
                          !.g.index = Some(TreeAt(w, Master))])

\* SakDbNamespaceGit.start_session; suffix is the name drawn when session/<name> is taken
start_session(w, suffix) ==
    LET name == IF w.rf[SessionBranch] # NoRef THEN suffix ELSE SessionBranch
    IN  IF w.g.index # None \/ w.g.branch # None THEN Raise(w)
        ELSE Return([w EXCEPT !.rf[name] = w.rf[Master],
                              !.g.branch = Some(name),
                              !.g.index = Some(TreeAt(w, Master))])

write_without_session(w, path, value, suffix) ==
    IF w.g.touched THEN Return([w EXCEPT !.g = changes_write(w.g, path, value)])
    ELSE AndThen(start_session(w, suffix), LAMBDA w1 :
            Return([w1 EXCEPT !.g = changes_write([w1.g EXCEPT !.touched = TRUE,
                                                               !.changes = NoChanges,
                                                               !.order = <<>>],
                                                  path, value)]))

\* SakDbNamespace.write_sakdb with SakDbSession.write_to_session
write_sakdb(w, path, value, suffix) ==
    IF w.g.current_session = None THEN Raise(w)
    ELSE IF w.g.touched THEN Return([w EXCEPT !.g = changes_write(w.g, path, value)])
    ELSE AndThen(start_session(w, suffix), LAMBDA w1 :
            Return([w1 EXCEPT !.g = changes_write([w1.g EXCEPT !.touched = TRUE,
                                                               !.changes = NoChanges,
                                                               !.order = <<>>],
                                                  path, value)]))

\* SakDbNamespaceGit._write
git_write(w, path, text) ==
    IF read_blob(w, ReadRef(w), path) = Some(text) THEN Return(w)
    ELSE IF w.g.index = None THEN Raise(w)
    ELSE Return([w EXCEPT !.g.index = Some([w.g.index[1] EXCEPT ![path] = Some(text)])])

\* SakDbNamespace.session_apply_sakdb
session_apply_sakdb(w, path, value) ==
    Let(read_sakdb(w, path), LAMBDA prev :
        IF ~prev.ok THEN Raise(w)
        ELSE Let(sakdb_dumps(sanitized(value, prev.val)), LAMBDA text :
                 IF ~text.ok THEN Raise(w) ELSE git_write(w, path, text.text)))

ClearChanges(w) == [w EXCEPT !.g.changes = NoChanges, !.g.order = <<>>]

\* SakDbSessionChanges.dump_to_namespace
RECURSIVE dump_from(_, _)
dump_from(w, i) ==
    IF i > Len(w.g.order) THEN Return(ClearChanges(w))
    ELSE AndThen(session_apply_sakdb(w, w.g.order[i], w.g.changes[w.g.order[i]][1]),
                 LAMBDA w1 : dump_from(w1, i + 1))

dump_to_namespace(w) == IF w.g.touched THEN dump_from(w, 1) ELSE Return(w)

commit_to_namespace_branch(w) ==
    IF w.g.index = None \/ w.g.branch = None THEN Raise(w)
    ELSE IF w.g.index[1] # TreeAt(w, w.g.branch[1])
    THEN Let(create_commit(w.cs, <<w.rf[w.g.branch[1]]>>, w.g.index[1]), LAMBDA cs2 :
             Return([w EXCEPT !.cs = cs2, !.rf[w.g.branch[1]] = Len(cs2),
                              !.rf[Master] = Len(cs2)]))
    ELSE Return(w)

commit_always(w) ==
    IF w.g.index = None \/ w.g.branch = None THEN Raise(w)
    ELSE Let(create_commit(w.cs, <<w.rf[w.g.branch[1]]>>, w.g.index[1]), LAMBDA cs2 :
             Return([w EXCEPT !.cs = cs2, !.rf[w.g.branch[1]] = Len(cs2)]))

\* SakDbNamespaceGit.commit
namespace_commit(w) ==
    IF w.g.index = None \/ w.g.branch = None THEN Raise(w)
    ELSE IF w.g.index[1] # TreeAt(w, w.g.branch[1])
    THEN Let(create_commit(w.cs, <<w.rf[w.g.branch[1]]>>, w.g.index[1]), LAMBDA cs2 :
             Return([w EXCEPT !.cs = cs2, !.rf[w.g.branch[1]] = Len(cs2)]))
    ELSE Return(w)

\* SakDbSession.commit
session_commit(w) ==
    IF ~w.g.touched THEN Return(w)
    ELSE AndThen(dump_to_namespace(w), LAMBDA w1 :
         AndThen(namespace_commit(w1), LAMBDA w2 : Return(ClearChanges(w2))))

rollback_index_only(w) ==
    IF w.g.branch = None THEN Raise(w)
    ELSE Return([w EXCEPT !.g.index = Some(TreeAt(w, Master))])

\* SakDbNamespaceGit.rollback
namespace_rollback(w) ==
    IF w.g.branch = None THEN Raise(w)
    ELSE Return([w EXCEPT !.rf[w.g.branch[1]] = w.rf[Master],
                          !.g.index = Some(TreeAt(w, Master))])

\* SakDbSession.rollback
session_rollback(w) ==
    IF ~w.g.touched THEN Return(w)
    ELSE AndThen(namespace_rollback(w), LAMBDA w1 : Return(ClearChanges(w1)))

close_without_merge(w) ==
    IF w.g.branch = None \/ w.g.index = None THEN Raise(w)
    ELSE AndThen(namespace_commit(w), LAMBDA w1 :
            Return([w1 EXCEPT !.rf[w1.g.branch[1]] = NoRef,
                              !.g.index = None,
                              !.g.branch = None]))

\* SakDbNamespaceGit.close_session
close_session(w) ==
    IF w.g.branch = None \/ w.g.index = None THEN Raise(w)
    ELSE AndThen(namespace_commit(w), LAMBDA w1 :
         Let(do_merge(w1.cs, w1.rf, Master, w1.rf[w1.g.branch[1]]), LAMBDA m :
             IF ~m.ok THEN Raise(w1)
             ELSE Return([w1 EXCEPT !.cs = m.cs,
                                    !.rf = [m.rf EXCEPT ![w1.g.branch[1]] = NoRef],
                                    !.g.index = None,
                                    !.g.branch = None])))

\* the last two statements of SakDbSession.__exit__
exit_clear(w) ==
    [w EXCEPT !.g.current_session = None, !.g.touched = FALSE,
              !.g.changes = NoChanges, !.g.order = <<>>]

\* SakDbSession.__exit__; failed: the scope is left by an exception
session_exit(w, failed) ==
    IF failed
    THEN AndThen(session_rollback(w), LAMBDA w1 : Return(exit_clear(w1)))
    ELSE AndThen(dump_to_namespace(w), LAMBDA w1 :
         AndThen(IF w1.g.touched THEN close_session(w1) ELSE Return(w1), LAMBDA w2 :
                 Return(exit_clear(ClearChanges(w2)))))

\* SakDbSession(graph, name, msg), installed as the current session
session_new(g, sid) ==
    [g EXCEPT !.current_session = Some(sid), !.touched = FALSE,
              !.changes = NoChanges, !.order = <<>>]

session_unchecked(g, sid) == [ok |-> TRUE, g |-> session_new(g, sid)]

\* SakDbGraph.session: [ok, g]; sid names the new SakDbSession
graph_session(g, sid) ==
    IF g.current_session # None THEN [ok |-> FALSE, g |-> g]
    ELSE [ok |-> TRUE, g |-> session_new(g, sid)]

----------------------------------------------------------------------------
(* sakdb_storage.py: version metadata and the namespace constructor *)

VERSION == <<"0", ".", "0", ".", "1">>

VersionKey == <<"version">>

\* the major component: int(version.split(".")[0])
Major(version) ==
    LET dot == IndexOf(version, ".")
    IN  StrToNat(SubSeq(version, 1, IF dot = 0 THEN Len(version) ELSE dot - 1))

validate_every_component(version) == version = VERSION

\* SakDbNamespace._validate_version
validate_version(version) == ~(Major(version) > Major(VERSION))

\* SakDbNamespace.get_metadata("version", branch): [ok, val]; the branch is not used
get_metadata(w) ==
    Let(read_sakdb(w, VersionPath), LAMBDA data :
        IF ~data.ok \/ data.val = None THEN [ok |-> FALSE, val |-> None]
        ELSE Let(get_by_key(data.val[1], VersionKey), LAMBDA f :
                 IF f = None \/ ParsePayload(f[1].payload) = None
                 THEN [ok |-> FALSE, val |-> None]
                 ELSE [ok |-> TRUE, val |-> ParsePayload(f[1].payload)]))

\* the field record SakDbNamespace.set_metadata("version", VERSION) writes at time ts
VersionRecord(ts) ==
    <<SakDbField(<<"s", "t", "r">>, ts, <<"_type">>), SakDbField(JsonStr(VERSION), ts, VersionKey)>>

\* SakDbNamespaceGit.__init__ on a new repository, at time ts: the initial
\* commit, then the session that stores the version.
Construct(cs, ts) ==
    Let(create_commit(cs, <<>>, EmptyTree), LAMBDA cs1 :
        session_exit(write_sakdb([cs |-> cs1,
                                  rf |-> [NoRefs EXCEPT ![Master] = Len(cs1)],
                                  g |-> graph_session(NewGraph, 0).g],
                                 VersionPath, VersionRecord(ts), SessionBranch).w,
                     FALSE).w)

\* SakDbNamespaceGit.__init__ with a new graph on the repository of w, at time
\* ts: the initial commit if the namespace branch is missing, then the version
\* check, or the session that stores the version when none can be read.
open_namespace(w, ts) ==
    Let(IF w.rf[Master] # NoRef THEN [w EXCEPT !.g = NewGraph]
        ELSE Let(create_commit(w.cs, <<>>, EmptyTree), LAMBDA cs1 :
                 [cs |-> cs1, rf |-> [w.rf EXCEPT ![Master] = Len(cs1)], g |-> NewGraph]),
        LAMBDA w0 :
            Let(get_metadata(w0), LAMBDA v :
                IF v.ok
                THEN IF validate_version(v.val[1]) THEN Return(w0) ELSE Raise(w0)
                ELSE AndThen(write_sakdb([w0 EXCEPT !.g = graph_session(w0.g, 0).g],
                                         VersionPath, VersionRecord(ts), SessionBranch),
                             LAMBDA w1 : session_exit(w1, FALSE))))

----------------------------------------------------------------------------
(* sakdb_storage.py: SakDbNamespaceGit.sync, over two repositories that are *)
(* each other's only remote.  A sync world s is [cs, refs, graphs]; a step  *)
(* yields [ok, s].                                                          *)

Repos == {"A", "B"}

Remote(r) == CHOOSE o \in Repos : o # r

World(s, r) == [cs |-> s.cs, rf |-> s.refs[r], g |-> s.graphs[r]]

\* remote.fetch(): the remote's local branches become remote-tracking branches
fetch(s, r) ==
    LET o == s.refs[Remote(r)]
    IN  [s EXCEPT !.refs[r][RemoteMaster] = IF o[Master] # NoRef THEN o[Master] ELSE @,
                  !.refs[r][RemoteSynced] = IF o[Synced] # NoRef THEN o[Synced] ELSE @]

\* the rest F of sync after the step r, unless r raised
AndThenS(r, F(_)) == IF r.ok THEN F(r.s) ELSE r

\* refs with the synced branch created from the namespace branch if missing
with_synced(rf) == IF rf[Synced] = NoRef THEN [rf EXCEPT ![Synced] = rf[Master]] ELSE rf

skip_local(s, r) == [ok |-> TRUE, s |-> [s EXCEPT !.refs[r] = with_synced(s.refs[r])]]

\* sync, steps a and b for the namespace branch
merge_local(s, r) ==
    Let(do_merge(s.cs, with_synced(s.refs[r]), Synced, s.refs[r][Master]), LAMBDA m :
        [ok |-> m.ok, s |-> [s EXCEPT !.cs = m.cs, !.refs[r] = m.rf]])

\* sync, step c: the remote branches whose name ends with synced/master
merge_remote(s, r) ==
    IF s.refs[r][RemoteSynced] = NoRef THEN [ok |-> TRUE, s |-> s]
    ELSE Let(get_metadata(World(s, r)), LAMBDA v :
         IF ~v.ok THEN [ok |-> FALSE, s |-> s]
         ELSE IF ~validate_version(v.val[1]) THEN [ok |-> FALSE, s |-> s]
         ELSE Let(do_merge(s.cs, s.refs[r], Synced, s.refs[r][RemoteSynced]), LAMBDA m :
                  [ok |-> m.ok, s |-> [s EXCEPT !.cs = m.cs, !.refs[r] = m.rf]]))

keep_master(s, r) == s

\* sync, step d: branch.set_target(synced_branch.target)
move_master(s, r) == [s EXCEPT !.refs[r][Master] = s.refs[r][Synced]]

push_to_master(s, r) ==
    [ok |-> TRUE, s |-> [s EXCEPT !.refs[Remote(r)][Synced] = s.refs[r][Synced],
                                  !.refs[Remote(r)][Master] = s.refs[r][Synced]]]

\* remote.push([synced_branch.name]): refused unless a fast-forward
push(s, r) ==
    IF s.refs[Remote(r)][Synced] = NoRef
       \/ s.refs[Remote(r)][Synced] \in Ancestors(s.cs, s.refs[r][Synced])
    THEN [ok |-> TRUE, s |-> [s EXCEPT !.refs[Remote(r)][Synced] = s.refs[r][Synced]]]
    ELSE [ok |-> FALSE, s |-> s]

\* sync, steps a to d
merge_step(s, r) ==
    AndThenS(merge_local(s, r), LAMBDA s1 :
    AndThenS(merge_remote(s1, r), LAMBDA s2 : [ok |-> TRUE, s |-> move_master(s2, r)]))

\* sync, step e
push_step(s, r) == AndThenS(push(s, r), LAMBDA s1 : [ok |-> TRUE, s |-> fetch(s1, r)])

\* SakDbNamespaceGit.sync, a whole run: [ok, s, moved]; moved: step d was reached
sync(s, r) ==
    Let(merge_step(fetch(s, r), r), LAMBDA m :
        IF ~m.ok THEN [ok |-> FALSE, s |-> m.s, moved |-> FALSE]
        ELSE Let(push_step(m.s, r), LAMBDA p : [ok |-> p.ok, s |-> p.s, moved |-> TRUE]))

----------------------------------------------------------------------------
(* The state outside the operation under check *)

Idle == [r \in Repos |-> "idle"]

NoHist ==
    [last |-> "init",                   \* the last operation and its outcome
     sid |-> 1,                         \* the next session id
     live |-> {},                       \* sessions whose with-scope is open
     pre |-> EmptyTree,                 \* the namespace branch when the session began
     tip |-> NoRef,                     \* its tip when the session began
     stored |-> None,                   \* the version another software stored in B: major, minor, patch
     noop |-> {},                       \* staged fields the last write repeated: key, ts, new ts
     clean |-> FALSE,                   \* rolled back, nothing written since
     committed |-> FALSE,               \* Session.commit() ran since the session began
     closed |-> FALSE,                  \* the last scope exited normally
     durable |-> NoChanges,             \* path -> the last FR staged in the scope
     latest |-> {},                     \* <<key, payload>> of the latest write per key
     expect |-> None,                   \* the list last assigned to the attribute
     nwrites |-> 0,                     \* writes so far
     failed |-> FALSE,                  \* a session that wrote exited by exception
     written |-> {},                    \* the object fields written, by any replica
     moved |-> [r \in Repos |-> FALSE], \* sync step d ran since the replica's last write
     clock |-> [r \in Repos |-> 0],     \* the last timestamp each replica wrote with
     syncs |-> <<>>,                    \* the sync() runs since the edits: replica, outcome
     scenario |-> "none",               \* how the replicas stood when the edits began
     expectd |-> None,                  \* the dict last assigned to the attribute d: <<key, value>> pairs
     held |-> [r \in Repos |-> None],   \* the object each replica held after its last edit since then
     removed |-> {},                    \* the keys the last write removed while the remote held them
     scopes |-> [r \in Repos |-> 0],   \* the with-scopes each Graph has opened
     phase |-> [r \in Repos |-> "none"], \* the last scope of each Graph: none, open, started, closed, raised
     wrote |-> [r \in Repos |-> {}],    \* the fields each Graph has staged in its last scope
     given |-> [r \in Repos |-> {}],    \* the fields each Graph passed to write_sakdb in that scope
     made |-> [r \in Repos |-> {}],     \* the commits the exit of its last scope created
     overlap |-> FALSE]                 \* both Graphs' namespace sessions were started at one time

NoCall == [base |-> None, ours |-> None, theirs |-> None, out |-> None, done |-> TRUE]

----------------------------------------------------------------------------
(* SpecMerge: merge(base, ours, theirs) on every bounded input *)

\* the bases tried: absent, empty, one field
BaseRecords == {None, Some(<<>>), Some(<<SakDbField(<<"p">>, 1, <<"a">>)>>)}

InitMerge ==
    /\ commits = <<>>
    /\ refs = [r \in Repos |-> NoRefs]
    /\ graphs = [r \in Repos |-> NewGraph]
    /\ syncpc = Idle
    /\ hist = NoHist
    /\ fn \in [base : BaseRecords,
                ours : Optional(SideRecords(<<"p">>)),
                theirs : Optional(SideRecords(<<"q">>)),
                out : {None}, done : {FALSE}]

ApplyMerge ==
    /\ ~fn.done
    /\ fn' = [fn EXCEPT !.out = Some(merge(fn.base, fn.ours, fn.theirs)), !.done = TRUE]
    /\ UNCHANGED <<commits, refs, graphs, syncpc, hist>>

NextMerge == ApplyMerge

SpecMerge == InitMerge /\ [][NextMerge]_vars

BothPresent == fn.done /\ fn.ours # None /\ fn.theirs # None

SharedKeys == Range(get_keys(fn.ours[1])) \cap Range(get_keys(fn.theirs[1]))

FieldsWithKey(fr, k) == {i \in 1..Len(fr) : fr[i].key = k}

\* C1: per-key last-writer-wins.  For any base and any present ours and theirs
\* with unique keys, for every key on both sides the merge holds exactly one
\* field for it: ours' when ours.ts > theirs.ts, theirs' when theirs.ts > ours.ts.
C1_PerKeyLastWriterWins ==
    (BothPresent /\ UniqueKeys(fn.ours[1]) /\ UniqueKeys(fn.theirs[1])) =>
        \A k \in SharedKeys :
            LET o == get_by_key(fn.ours[1], k)[1]
                t == get_by_key(fn.theirs[1], k)[1]
                m == get_by_key(fn.out[1], k)
            IN  /\ Cardinality(FieldsWithKey(fn.out[1], k)) = 1
                /\ (o.ts > t.ts) => (m = Some(o))
                /\ (t.ts > o.ts) => (m = Some(t))

\* a merge with a base where both sides hold a key with different timestamps and payloads
C1_Witness ==
    /\ BothPresent /\ fn.base # None
    /\ UniqueKeys(fn.ours[1]) /\ UniqueKeys(fn.theirs[1])
    /\ \E k \in SharedKeys :
            /\ get_by_key(fn.ours[1], k)[1].ts > get_by_key(fn.theirs[1], k)[1].ts
            /\ get_by_key(fn.ours[1], k)[1].payload # get_by_key(fn.theirs[1], k)[1].payload
            /\ get_by_key(fn.out[1], k) = get_by_key(fn.ours[1], k)

\* C2: when ours and theirs are both present the key set of the merge is
\* keys(ours) \cup keys(theirs), and a key of only one side appears with
\* exactly that side's field.
C2_KeyUnion ==
    BothPresent =>
        LET ko == Range(get_keys(fn.ours[1]))
            kt == Range(get_keys(fn.theirs[1]))
        IN  /\ Range(get_keys(fn.out[1])) = ko \cup kt
            /\ \A k \in ko \ kt : get_by_key(fn.out[1], k) = get_by_key(fn.ours[1], k)
            /\ \A k \in kt \ ko : get_by_key(fn.out[1], k) = get_by_key(fn.theirs[1], k)

\* one key written on one side only and another on the other side only: both are in the merge
C2_Witness ==
    /\ BothPresent
    /\ get_keys(fn.ours[1]) = << <<"a">> >>
    /\ get_keys(fn.theirs[1]) = << <<"b">> >>
    /\ get_keys(fn.out[1]) = << <<"a">>, <<"b">> >>

\* the first fields of ours and theirs for a shared key, and the merged field
OursField(k) == get_by_key(fn.ours[1], k)[1]

TheirsField(k) == get_by_key(fn.theirs[1], k)[1]

MergedField(k) == get_by_key(fn.out[1], k)

\* C16 as stated: if for every shared key ours' ts is greater than or equal to
\* theirs', the merge holds ours' field for every shared key.
C16_Original ==
    (BothPresent /\ \A k \in SharedKeys : OursField(k).ts >= TheirsField(k).ts) =>
        \A k \in SharedKeys : MergedField(k) = Some(OursField(k))

\* C16, amended: under the same condition the merge holds ours' field for each
\* shared key whose ts is strictly greater on ours' side, and theirs' field for
\* each shared key with equal ts.
C16_MonotonicTimestamps ==
    (BothPresent /\ \A k \in SharedKeys : OursField(k).ts >= TheirsField(k).ts) =>
        \A k \in SharedKeys :
            /\ (OursField(k).ts > TheirsField(k).ts) => (MergedField(k) = Some(OursField(k)))
            /\ (OursField(k).ts = TheirsField(k).ts) => (MergedField(k) = Some(TheirsField(k)))

\* two shared keys, one newer on ours' side and one with equal ts
C16_Witness ==
    /\ BothPresent /\ SharedKeys = Keys
    /\ OursField(<<"a">>).ts > TheirsField(<<"a">>).ts
    /\ OursField(<<"b">>).ts = TheirsField(<<"b">>).ts
    /\ MergedField(<<"a">>) = Some(OursField(<<"a">>))
    /\ MergedField(<<"b">>) = Some(TheirsField(<<"b">>))

\* C17: tie-break.  With equal ts on both sides the merge holds theirs' field
\* for the key; it holds ours' field only when ours' ts is strictly greater.
C17_TieBreak ==
    BothPresent =>
        \A k \in SharedKeys :
            /\ (OursField(k).ts = TheirsField(k).ts) => (MergedField(k) = Some(TheirsField(k)))
            /\ (MergedField(k) = Some(OursField(k))) => (OursField(k).ts > TheirsField(k).ts)

\* a merge without a base of two different fields with one key and one ts
C17_Witness ==
    /\ BothPresent /\ fn.base = None
    /\ Len(fn.ours[1]) = 1 /\ Len(fn.theirs[1]) = 1
    /\ SharedKeys = {<<"a">>}
    /\ OursField(<<"a">>).ts = TheirsField(<<"a">>).ts
    /\ OursField(<<"a">>) # TheirsField(<<"a">>)
    /\ fn.out = Some(fn.theirs[1])

----------------------------------------------------------------------------
(* SpecMergeLaws: merge(b, x, y), merge(b, y, x) and merge(b, x, x) for     *)
(* every bounded base b and present x and y                                 *)

InitLaws ==
    /\ commits = <<>>
    /\ refs = [r \in Repos |-> NoRefs]
    /\ graphs = [r \in Repos |-> NewGraph]
    /\ syncpc = Idle
    /\ hist = NoHist
    /\ fn \in [base : BaseRecords,
                x : SideRecords(<<"p">>),
                y : SideRecords(<<"q">>),
                xy : {None}, yx : {None}, xx : {None}, done : {FALSE}]

ApplyLaws ==
    /\ ~fn.done
    /\ fn' = [fn EXCEPT !.xy = Some(merge(fn.base, Some(fn.x), Some(fn.y))),
                        !.yx = Some(merge(fn.base, Some(fn.y), Some(fn.x))),
                        !.xx = Some(merge(fn.base, Some(fn.x), Some(fn.x))),
                        !.done = TRUE]
    /\ UNCHANGED <<commits, refs, graphs, syncpc, hist>>

NextLaws == ApplyLaws

SpecMergeLaws == InitLaws /\ [][NextLaws]_vars

\* C14: merge idempotence.  merge(base, x, x) has the keys of x, each with the
\* field x holds for it; when x has no repeated key it is x up to field order.
C14_Idempotence ==
    fn.done =>
        /\ Range(get_keys(fn.xx[1])) = Range(get_keys(fn.x))
        /\ \A k \in Range(get_keys(fn.x)) : get_by_key(fn.xx[1], k) = get_by_key(fn.x, k)
        /\ UniqueKeys(fn.xx[1])
        /\ UniqueKeys(fn.x) => (Len(fn.xx[1]) = Len(fn.x) /\ Range(fn.xx[1]) = Range(fn.x))

\* with a base, an x whose fields are not in key order is merged into the same fields in key order
C14_Witness ==
    /\ fn.done /\ fn.base # None
    /\ get_keys(fn.x) = << <<"b">>, <<"a">> >>
    /\ fn.xx[1] # fn.x
    /\ Range(fn.xx[1]) = Range(fn.x)

\* C15: merge commutativity.  When every key shared by x and y has different
\* timestamps on the two sides, merge(b, x, y) and merge(b, y, x) hold the same
\* set of fields.
C15_Commutativity ==
    (fn.done /\ \A k \in Range(get_keys(fn.x)) \cap Range(get_keys(fn.y)) :
                    get_by_key(fn.x, k)[1].ts # get_by_key(fn.y, k)[1].ts) =>
        Range(fn.xy[1]) = Range(fn.yx[1])

\* x and y share a key with different timestamps, each holds a key of its own
\* side's choice, and both orders give the same fields
C15_Witness ==
    /\ fn.done
    /\ Range(get_keys(fn.x)) = Keys /\ Range(get_keys(fn.y)) = {<<"a">>}
    /\ get_by_key(fn.x, <<"a">>)[1].ts < get_by_key(fn.y, <<"a">>)[1].ts
    /\ Range(fn.xy[1]) = Range(fn.yx[1])
    /\ get_by_key(fn.xy[1], <<"a">>) = get_by_key(fn.y, <<"a">>)

----------------------------------------------------------------------------
(* SpecCodec: sakdb_dumps, then sakdb_loads of its text, on every bounded   *)
(* field record                                                             *)

\* keys: one plain, one that puts the separator into the header
CodecKeys == {<<"a">>, <<"&">>}

\* payloads: plain, the separator alone and inside, a quote
CodecPayloads == {<<"p">>, <<"&">>, <<"p", "&", "q">>, <<QUOTE>>}

\* SakDbField(payload, ts, key, crc): a field constructed with a crc that holds the separator
CrcField == [SakDbField(<<"p">>, 1, <<"a">>) EXCEPT !.crc = <<"md5:", "&">>]

CodecRecords ==
    SeqsUpTo({SakDbField(p, t, k) : p \in CodecPayloads, t \in 1..MaxTs, k \in CodecKeys}
                \cup {CrcField}, MaxLen)

InitCodec ==
    /\ commits = <<>>
    /\ refs = [r \in Repos |-> NoRefs]
    /\ graphs = [r \in Repos |-> NewGraph]
    /\ syncpc = Idle
    /\ hist = NoHist
    /\ fn \in [fr : CodecRecords, text : {None}, out : {None}, stage : {"input"}]

\* text = sakdb_dumps(fr)
Encode ==
    /\ fn.stage = "input"
    /\ \E d \in {sakdb_dumps(fn.fr)} :
           fn' = IF d.ok THEN [fn EXCEPT !.text = Some(d.text), !.stage = "encoded"]
                 ELSE [fn EXCEPT !.stage = "raised"]
    /\ UNCHANGED <<commits, refs, graphs, syncpc, hist>>

\* sakdb_loads(text)
Decode ==
    /\ fn.stage = "encoded"
    /\ fn' = [fn EXCEPT !.out = Some(sakdb_loads(fn.text[1])), !.stage = "decoded"]
    /\ UNCHANGED <<commits, refs, graphs, syncpc, hist>>

NextCodec == Encode \/ Decode

SpecCodec == InitCodec /\ [][NextCodec]_vars

SeparatorInKey(fr) ==
    \E i \in 1..Len(fr) : PAYLOAD_SEPARATOR \in Range(fr[i].key) \cup Range(fr[i].crc)

\* C13 as stated: for every FR, the one with no fields included, whose headers
\* hold no separator, decoding the encoding yields the same fields in the same order.
C13_Original ==
    /\ (fn.stage = "raised") => SeparatorInKey(fn.fr)
    /\ (fn.stage = "decoded") => (fn.out = Some([ok |-> TRUE, val |-> Some(fn.fr)]))

\* C13, amended: the same for an FR with at least one field; the FR with no
\* fields is encoded to a text that decodes to the absent value.
C13_RoundTrip ==
    /\ (fn.stage = "raised") => SeparatorInKey(fn.fr)
    /\ (fn.stage = "decoded" /\ fn.fr # <<>>) =>
            (fn.out = Some([ok |-> TRUE, val |-> Some(fn.fr)]))
    /\ (fn.stage = "decoded" /\ fn.fr = <<>>) =>
            (fn.out = Some([ok |-> TRUE, val |-> None]))

\* two fields whose payloads hold the separator were encoded and decoded
C13_Witness ==
    /\ fn.stage = "decoded" /\ Len(fn.fr) = 2
    /\ \A i \in 1..2 : PAYLOAD_SEPARATOR \in Range(fn.fr[i].payload)
    /\ fn.fr[1] # fn.fr[2]
    /\ fn.out = Some([ok |-> TRUE, val |-> Some(fn.fr)])

----------------------------------------------------------------------------
(* SpecSession: one graph on repository A, its sessions in every order *)

MaxSessions == 2    \* graph.session() is called at most MaxSessions times
MaxWrites == 2      \* write_sakdb is called at most MaxWrites times

\* the time at which the constructor stores the version
InitTs == [r \in Repos |-> IF r = "A" THEN 0 ELSE 1]

BadKeyRecord == <<SakDbField(<<"p">>, 1, <<"&">>)>>

DupKeyRecord == <<SakDbField(<<"p">>, 1, <<"a">>), SakDbField(<<"p">>, 2, <<"a">>)>>

\* the field records written: empty; key a with equal and with different
\* timestamps and payloads; key b; a key that cannot be encoded; a repeated key
SessionRecords ==
    {<<>>,
     <<SakDbField(<<"p">>, 1, <<"a">>)>>,
     <<SakDbField(<<"q">>, 1, <<"a">>)>>,
     <<SakDbField(<<"p">>, 2, <<"a">>)>>,
     <<SakDbField(<<"q">>, 1, <<"b">>)>>,
     BadKeyRecord,
     DupKeyRecord}

W == [cs |-> commits, rf |-> refs["A"], g |-> graphs["A"]]

Put(w) ==
    /\ commits' = w.cs
    /\ refs' = [refs EXCEPT !["A"] = w.rf]
    /\ graphs' = [graphs EXCEPT !["A"] = w.g]

InitSession ==
    \E w \in {Construct(<<>>, InitTs["A"])} :
        /\ commits = w.cs
        /\ refs = [r \in Repos |-> IF r = "A" THEN w.rf ELSE NoRefs]
        /\ graphs = [r \in Repos |-> IF r = "A" THEN w.g ELSE NewGraph]
        /\ syncpc = Idle
        /\ hist = [NoHist EXCEPT !.pre = TreeAt(w, Master), !.tip = w.rf[Master]]
        /\ fn = NoCall

\* with graph.session(): ...
OpenSession ==
    /\ hist.sid <= MaxSessions
    /\ \E r \in {graph_session(W.g, hist.sid)} :
           /\ graphs' = [graphs EXCEPT !["A"] = r.g]
           /\ hist' = IF r.ok
                       THEN [hist EXCEPT !.last = "session", !.sid = @ + 1,
                                         !.live = @ \cup {hist.sid},
                                         !.pre = TreeAt(W, Master),
                                         !.tip = W.rf[Master], !.noop = {},
                                         !.clean = FALSE, !.committed = FALSE,
                                         !.closed = FALSE, !.durable = NoChanges,
                                         !.latest = {}]
                       ELSE [hist EXCEPT !.last = "session_raise", !.sid = @ + 1]
    /\ UNCHANGED <<commits, refs, syncpc, fn>>

WrittenPairs(fr) == IF UniqueKeys(fr) THEN {<<fr[i].key, fr[i].payload>> : i \in 1..Len(fr)} ELSE {}

\* the fields staged for the path that fr repeats, same key and same crc:
\* the key, the staged ts and the ts fr gives
Repeated(g, path, fr) ==
    IF ~g.touched \/ g.changes[path] = None THEN {}
    ELSE {x \in {[key |-> f.key, crc |-> f.crc, ts |-> f.ts, new |-> fr[i].ts] :
                    f \in Range(g.changes[path][1]), i \in 1..Len(fr)} :
            \E i \in 1..Len(fr) : fr[i].key = x.key /\ fr[i].crc = x.crc /\ fr[i].ts = x.new}

\* namespace.write_sakdb(path, fr), inside or outside a session scope
Write ==
    /\ hist.nwrites < MaxWrites
    /\ \E fr \in SessionRecords, suffix \in SuffixedBranches :
          \E r \in {write_sakdb(W, MetaPath, fr, suffix)} :
              /\ Put(r.w)
              /\ hist' = IF r.ok
                          THEN [hist EXCEPT
                                  !.last = "write", !.nwrites = @ + 1, !.clean = FALSE,
                                  !.noop = Repeated(W.g, MetaPath, fr),
                                  !.durable[MetaPath] = r.w.g.changes[MetaPath],
                                  !.latest = {kp \in @ : kp[1] \notin Range(get_keys(fr))}
                                                \cup WrittenPairs(fr)]
                          ELSE [hist EXCEPT
                                  !.last = IF W.g.current_session = None
                                           THEN "write_nosession" ELSE "write_raise",
                                  !.nwrites = @ + 1]
    /\ UNCHANGED <<syncpc, fn>>

\* session.commit() in the scope
Commit ==
    /\ hist.live # {}
    /\ \E r \in {session_commit(W)} :
           /\ Put(r.w)
           /\ hist' = [hist EXCEPT !.last = IF r.ok THEN "commit" ELSE "commit_raise",
                                    !.committed = @ \/ (r.ok /\ r.w.cs # W.cs)]
    /\ UNCHANGED <<syncpc, fn>>

\* session.rollback() in the scope
Rollback ==
    /\ hist.live # {}
    /\ \E r \in {session_rollback(W)} :
           /\ Put(r.w)
           /\ hist' = IF r.ok
                       THEN [hist EXCEPT !.last = "rollback", !.clean = TRUE,
                                         !.durable = NoChanges, !.latest = {}]
                       ELSE [hist EXCEPT !.last = "rollback_raise"]
    /\ UNCHANGED <<syncpc, fn>>

\* the end of the with block is reached
ExitNormal ==
    /\ hist.live # {}
    /\ \E r \in {session_exit(W, FALSE)} :
           /\ Put(r.w)
           /\ hist' = [hist EXCEPT !.last = IF r.ok THEN "exit" ELSE "exit_raise",
                                    !.live = {}, !.closed = r.ok]
    /\ UNCHANGED <<syncpc, fn>>

\* an exception leaves the with block
ExitError ==
    /\ hist.live # {}
    /\ \E r \in {session_exit(W, TRUE)} :
           /\ Put(r.w)
           /\ hist' = [hist EXCEPT !.last = IF r.ok THEN "error_exit" ELSE "error_exit_raise",
                                    !.live = {}, !.clean = @ \/ r.ok,
                                    !.failed = @ \/ W.g.touched]
    /\ UNCHANGED <<syncpc, fn>>

NextSession == OpenSession \/ Write \/ Commit \/ Rollback \/ ExitNormal \/ ExitError

SpecSession == InitSession /\ [][NextSession]_vars

----------------------------------------------------------------------------
(* Properties of the session lifecycle *)

\* namespace.read_sakdb(path) through the writing graph
ReadNow(p) == read_sakdb(W, p)

\* the same read through a new graph and namespace on the same repository and branch
ReadFresh(p) == read_sakdb([W EXCEPT !.g = NewGraph], p)

\* the value the path had on the namespace branch before the session began
PreValue(p) == LoadBlob(hist.pre[p])

\* C5: rollback discards.  After session.rollback(), with or without an earlier
\* Session.commit(), and after a scope exits by exception, every read, in the
\* rest of the scope and after it, returns the value the path had on the
\* namespace branch before the session began.
C5_RollbackDiscards ==
    hist.clean => \A p \in Paths : ReadNow(p) = PreValue(p)

\* a rollback that discards a Session.commit() of the same session
C5_Witness ==
    /\ hist.clean /\ hist.committed /\ hist.last = "rollback"
    /\ ReadNow(MetaPath) = PreValue(MetaPath)

Durable(p) ==
    /\ ReadNow(p) = [ok |-> TRUE, val |-> hist.durable[p]]
    /\ ReadFresh(p) = [ok |-> TRUE, val |-> hist.durable[p]]

\* C6 as stated: after a scope exits normally every path written in it reads,
\* with no session active, as the last FR staged for it, through the writing
\* graph and through a new one.
C6_Original ==
    hist.closed => \A p \in Paths : (hist.durable[p] # None) => Durable(p)

\* C6, amended: the same for a staged FR with unique keys and at least one
\* field; an empty staged FR reads back as no value.
C6_DurableOnNormalExit ==
    hist.closed =>
        \A p \in Paths :
            /\ (hist.durable[p] # None /\ hist.durable[p][1] # <<>>
                    /\ UniqueKeys(hist.durable[p][1])) => Durable(p)
            /\ (hist.durable[p] = Some(<<>>)) =>
                    (ReadNow(p).val = None /\ ReadFresh(p).val = None)

\* a scope that staged a field, exited normally and changed the namespace branch
C6_Witness ==
    /\ hist.closed /\ hist.last = "exit"
    /\ hist.durable[MetaPath] # None /\ hist.durable[MetaPath][1] # <<>>
    /\ UniqueKeys(hist.durable[MetaPath][1])
    /\ TreeAt(W, Master)[MetaPath] # hist.pre[MetaPath]

\* C7 as stated: within one session, after any writes to a path, with or
\* without Session.commit() in between, a read of the path returns for every
\* key written the payload of the most recent write of that key.
C7_Original ==
    (hist.live # {} /\ W.g.current_session # None) =>
        \A kp \in hist.latest :
            LET r == ReadNow(MetaPath)
            IN  /\ r.ok /\ r.val # None
                /\ get_by_key(r.val[1], kp[1]) # None
                /\ get_by_key(r.val[1], kp[1])[1].payload = kp[2]

\* C8: single session per graph.  The session of an open scope is the graph's
\* current session, so at most one is current; graph.session() while one is
\* current raises and leaves the session and its staged changes untouched.
C8_SingleSession ==
    /\ [](\A sid \in hist.live : W.g.current_session = Some(sid))
    /\ [][(hist'.last = "session_raise") =>
            (graphs' = graphs /\ refs' = refs /\ commits' = commits)]_vars

\* graph.session() raised inside a scope that has staged changes
C8_Witness ==
    /\ hist.last = "session_raise" /\ hist.live # {}
    /\ W.g.current_session # None
    /\ W.g.changes[MetaPath] # None

\* C9 as stated: on every exit path of a session scope, also when the final
\* apply, commit or close raises, Graph.current_session is cleared.
C9_Original ==
    (hist.live = {}) => (W.g.current_session = None)

\* C10 as stated: after a session that wrote to the namespace exits by
\* exception, a later session on the same graph can write to the namespace.
C10_Original ==
    hist.failed => (hist.last # "write_raise")

\* C11: no partial commits.  While the scope is open the tip of the namespace
\* branch is the one the session began with, whatever was written, committed
\* or rolled back; it still is after a rollback and after the scope is left
\* by an exception or its exit raises.
C11_NoPartialCommits ==
    /\ (hist.live # {}) => (W.rf[Master] = hist.tip)
    /\ hist.clean => (W.rf[Master] = hist.tip)
    /\ (hist.last \in {"error_exit", "error_exit_raise", "exit_raise"}) => (W.rf[Master] = hist.tip)

\* Session.commit() in an open scope has advanced the session branch only
C11_Witness ==
    /\ hist.live # {} /\ hist.last = "commit" /\ hist.committed
    /\ W.g.branch # None
    /\ W.rf[W.g.branch[1]] # W.rf[Master]
    /\ W.rf[Master] = hist.tip

\* C12: a write while the graph has no current session raises and changes
\* nothing: no staged entry, no session branch, no index, no commit.
C12_WriteNeedsSession ==
    [][(W.g.current_session = None /\ hist'.nwrites = hist.nwrites + 1) =>
            /\ hist'.last = "write_nosession"
            /\ graphs' = graphs /\ refs' = refs /\ commits' = commits]_vars

\* a write outside every session was refused after an earlier session had written
C12_Witness ==
    /\ hist.last = "write_nosession" /\ hist.closed
    /\ W.g.current_session = None /\ W.g.changes = NoChanges
    /\ W.g.index = None /\ W.g.branch = None
    /\ \A n \in {SessionBranch} \cup SuffixedBranches : W.rf[n] = NoRef

\* C18: a write that repeats a staged field, same key and same crc, leaves the
\* field staged for the key with a previously staged ts.
C18_NoOpWriteKeepsTs ==
    (hist.last = "write") =>
        \A f \in hist.noop :
            LET now == get_by_key(W.g.changes[MetaPath][1], f.key)
            IN  /\ now # None
                /\ \E g \in hist.noop : g.key = f.key /\ g.ts = now[1].ts

\* a field was written again with a later ts and the staged ts is the earlier one
C18_Witness ==
    /\ hist.last = "write" /\ hist.noop = {[key |-> <<"a">>, crc |-> payload_md5(<<"p">>), ts |-> 1, new |-> 2]}
    /\ W.g.changes[MetaPath] = Some(<<SakDbField(<<"p">>, 1, <<"a">>)>>)

----------------------------------------------------------------------------
(* SpecSyncWhole and SpecSync: two replicas, each the other's remote.  A     *)
(* replica writes in whole sessions; SpecSyncWhole runs sync() as a whole,   *)
(* SpecSync interleaves the replicas' fetch, merge and push.                 *)

MaxSyncWrites == 2  \* sessions written by the two replicas together
MaxCommits == 12    \* the object store holds at most MaxCommits commits
MaxRunCommits == 13 \* and at most MaxRunCommits after a whole run of sync()

S == [cs |-> commits, refs |-> refs, graphs |-> graphs]

PutS(s) ==
    /\ commits' = s.cs
    /\ refs' = s.refs
    /\ graphs' = s.graphs

InitSync ==
    \E wa \in {Construct(<<>>, InitTs["A"])} : \E wb \in {Construct(wa.cs, InitTs["B"])} :
        /\ commits = wb.cs
        /\ refs = [r \in Repos |-> IF r = "A" THEN wa.rf ELSE wb.rf]
        /\ graphs = [r \in Repos |-> IF r = "A" THEN wa.g ELSE wb.g]
        /\ syncpc = Idle
        /\ hist = NoHist
        /\ fn = NoCall

\* with graph.session(): namespace.write_sakdb(path, fr), the scope left normally
write_session(w, path, fr) ==
    IF ~graph_session(w.g, 1).ok THEN Raise(w)
    ELSE AndThen(write_sakdb([w EXCEPT !.g = graph_session(w.g, 1).g], path, fr, SessionBranch),
                 LAMBDA w2 : session_exit(w2, FALSE))

\* the fields a replica writes: a key of K, any timestamp, a payload of its own
SyncFields(r, K) ==
    {f \in Fields : f.key \in K /\ f.payload = IF r = "A" THEN <<"p">> ELSE <<"q">>}

\* the one key the replicas compete for when their sync steps interleave
ContendedKeys == {<<"a">>}

\* no replica has run sync() yet
NoSyncYet ==
    \A r \in Repos : refs[r][Synced] = NoRef /\ refs[r][RemoteMaster] = NoRef
                        /\ refs[r][RemoteSynced] = NoRef

\* both replicas stand on one synced commit
CommonBase ==
    /\ refs["A"][Master] = refs["B"][Master]
    /\ \A r \in Repos : refs[r][Synced] = refs[r][Master]

\* the write continues the edits made since the replicas last stood together
Continuing == hist.syncs = <<>> /\ hist.scenario \in {"nobase", "based"}

\* the sync() runs recorded after the edits
MaxSyncsKept == 3

\* the runs are recorded while both replicas hold edits made from one standing
Tracking ==
    /\ \A r \in Repos : hist.held[r] # None
    /\ hist.scenario \in {"nobase", "based"}
    /\ Len(hist.syncs) < MaxSyncsKept

\* A replica writes one field of the object in a session of its own.  The
\* timestamp is its clock's: later than its earlier writes, not related to
\* the other replica's clock.
LocalWrite(r, K) ==
    /\ syncpc[r] = "idle"
    /\ hist.nwrites < MaxSyncWrites
    /\ \E f \in SyncFields(r, K) :
          \E x \in {write_session(World(S, r), MetaPath, <<f>>)} :
              /\ f.ts > hist.clock[r]
              /\ x.ok
              /\ Len(x.w.cs) <= MaxCommits
              /\ PutS([S EXCEPT !.cs = x.w.cs, !.refs[r] = x.w.rf, !.graphs[r] = x.w.g])
              /\ hist' = [hist EXCEPT !.nwrites = @ + 1,
                                       !.written = @ \cup {f},
                                       !.moved[r] = FALSE, !.clock[r] = f.ts,
                                       !.syncs = <<>>,
                                       !.scenario = IF Continuing THEN @
                                                    ELSE IF NoSyncYet THEN "nobase"
                                                    ELSE IF CommonBase THEN "based"
                                                    ELSE "other",
                                       !.held = [(IF Continuing THEN @
                                                  ELSE [q \in Repos |-> None])
                                                    EXCEPT ![r] = LoadBlob(TreeAt(x.w, Master)[MetaPath]).val]]
    /\ UNCHANGED <<syncpc, fn>>

\* namespace.sync(), a whole run
SyncRun(r) ==
    /\ \E x \in {sync(S, r)} :
           /\ Len(x.s.cs) <= MaxRunCommits
           /\ PutS(x.s)
           /\ hist' = [hist EXCEPT !.moved[r] = @ \/ x.moved,
                                    !.syncs = IF Tracking
                                              THEN Append(@, [r |-> r, ok |-> x.ok])
                                              ELSE <<>>,
                                    !.scenario = IF Tracking THEN @ ELSE "none",
                                    !.held = IF Tracking THEN @ ELSE [q \in Repos |-> None]]
    /\ UNCHANGED <<syncpc, fn>>

NextSyncWhole == \E r \in Repos : LocalWrite(r, Keys) \/ SyncRun(r)

SpecSyncWhole == InitSync /\ [][NextSyncWhole]_vars

\* sync(): remote.fetch()
SyncFetch(r) ==
    /\ syncpc[r] = "idle"
    /\ PutS(fetch(S, r))
    /\ syncpc' = [syncpc EXCEPT ![r] = "fetched"]
    /\ UNCHANGED hist
    /\ UNCHANGED fn

\* sync(): the merges into the synced branch and the move of the namespace branch
SyncMerge(r) ==
    /\ syncpc[r] = "fetched"
    /\ \E x \in {merge_step(S, r)} :
           /\ Len(x.s.cs) <= MaxCommits
           /\ PutS(x.s)
           /\ syncpc' = [syncpc EXCEPT ![r] = IF x.ok THEN "merged" ELSE "idle"]
           /\ hist' = [hist EXCEPT !.moved[r] = @ \/ x.ok]
    /\ UNCHANGED fn

\* sync(): remote.push() and the fetch after it
SyncPush(r) ==
    /\ syncpc[r] = "merged"
    /\ PutS(push_step(S, r).s)
    /\ UNCHANGED hist
    /\ syncpc' = [syncpc EXCEPT ![r] = "idle"]
    /\ UNCHANGED fn

NextSync ==
    \E r \in Repos : LocalWrite(r, ContendedKeys) \/ SyncFetch(r) \/ SyncMerge(r) \/ SyncPush(r)

SpecSync == InitSync /\ [][NextSync]_vars

----------------------------------------------------------------------------
(* SpecVersion: the repository of B was created by a software of another    *)
(* version; this software opens a namespace on it and synchronises A with it *)

MaxVer == 1         \* the components of the other version are drawn from 0..MaxVer

\* "<major>.<minor>.<patch>"
VersionString(v) == NatToStr(v[1]) \o <<".">> \o NatToStr(v[2]) \o <<".">> \o NatToStr(v[3])

\* the field record set_metadata("version", version) of that software writes at time ts
StoredVersionRecord(v, ts) ==
    <<SakDbField(<<"s", "t", "r">>, ts, <<"_type">>),
      SakDbField(JsonStr(VersionString(v)), ts, VersionKey)>>

\* the repository that software leaves: the initial commit and the stored
\* version (none for v = <<>>); synced says whether it has run a sync
ForeignRepo(cs, v, ts, synced) ==
    Let(create_commit(cs, <<>>, EmptyTree), LAMBDA cs1 :
    Let([cs |-> cs1, rf |-> [NoRefs EXCEPT ![Master] = Len(cs1)], g |-> NewGraph], LAMBDA w1 :
    Let(IF v = <<>> THEN w1
        ELSE write_session(w1, VersionPath, StoredVersionRecord(v, ts)).w, LAMBDA w2 :
        [w2 EXCEPT !.g = NewGraph,
                   !.rf[Synced] = IF synced THEN w2.rf[Master] ELSE NoRef])))

StoredVersions == {<<>>} \cup {<<a, b, c>> : a, b, c \in 0..MaxVer}

InitVersion ==
    \E v \in StoredVersions, synced \in BOOLEAN :
        \E wa \in {Construct(<<>>, InitTs["A"])} :
            \E wb \in {ForeignRepo(wa.cs, v, InitTs["B"], synced)} :
                /\ commits = wb.cs
                /\ refs = [r \in Repos |-> IF r = "A" THEN wa.rf ELSE wb.rf]
                /\ graphs = [r \in Repos |-> IF r = "A" THEN wa.g ELSE wb.g]
                /\ syncpc = Idle
                /\ hist = [NoHist EXCEPT !.stored = v]
                /\ fn = NoCall

\* SakDbNamespaceGit(SakDbGraph(), "data", <the repository of B>, "master")
OpenB ==
    /\ \E x \in {open_namespace(World(S, "B"), MaxTs)} :
           /\ Len(x.w.cs) <= MaxCommits
           /\ PutS([S EXCEPT !.cs = x.w.cs, !.refs["B"] = x.w.rf, !.graphs["B"] = x.w.g])
           /\ hist' = [hist EXCEPT !.last = IF x.ok THEN "open" ELSE "open_raise"]
    /\ UNCHANGED <<syncpc, fn>>

NextVersion == OpenB \/ LocalWrite("A", Keys) \/ SyncRun("A")

SpecVersion == InitVersion /\ [][NextVersion]_vars

\* C19: the version gate is major-only.  Opening a namespace on a repository
\* with a stored version succeeds exactly when the stored major is at most the
\* software's, whatever the minor and the patch; with a greater major it raises.
C19_VersionGate ==
    (hist.stored # <<>>) =>
        /\ (hist.last = "open") => (hist.stored[1] <= Major(VERSION))
        /\ (hist.last = "open_raise") => (hist.stored[1] > Major(VERSION))

\* a repository whose stored minor and patch are greater than the software's was opened
C19_Witness ==
    /\ hist.last = "open" /\ hist.stored = <<0, 1, 1>>
    /\ graphs["B"] = NewGraph

\* metadata/version as stored on a branch: Optional version string
VersionOn(r, name) ==
    Let(LoadBlob(read_blob(World(S, r), name, VersionPath)), LAMBDA data :
        IF ~data.ok \/ data.val = None THEN None
        ELSE Let(get_by_key(data.val[1], VersionKey), LAMBDA f :
                 IF f = None THEN None ELSE ParsePayload(f[1].payload)))

\* C20 as stated: sync reads the version stored on the remote synced branch and,
\* when its major exceeds the software's, raises without merging that branch
\* and without moving the namespace branch: the remote branch is then no
\* ancestor of the namespace branch.
C20_Original ==
    (/\ refs["A"][RemoteSynced] # NoRef
     /\ VersionOn("A", RemoteSynced) # None
     /\ Major(VersionOn("A", RemoteSynced)[1]) > Major(VERSION)) =>
        refs["A"][RemoteSynced] \notin Ancestors(commits, refs["A"][Master])

\* the content of a path on a replica's namespace branch
Content(r, p) == TreeAt(World(S, r), Master)[p]

\* a further sync() of either replica changes no ref
NoSyncChangesRefs == \A r \in Repos : sync(S, r).s.refs = refs

\* C3 as stated: once writes stop and whole sync runs have been made until a
\* further sync changes no ref, every field of the object on both replicas is
\* a written field with the maximal ts among all replicas' writes of its key.
C3_Original ==
    (NoSyncChangesRefs /\ \A r \in Repos : sync(S, r).ok) =>
        \A r \in Repos :
            LET v == LoadBlob(Content(r, MetaPath))
            IN  /\ v.ok
                /\ (v.val # None) =>
                        \A i \in 1..Len(v.val[1]) :
                            /\ v.val[1][i] \in hist.written
                            /\ \A g \in hist.written :
                                    (g.key = v.val[1][i].key) => (g.ts <= v.val[1][i].ts)

\* C4 as stated: when both replicas have completed sync step d with no local
\* edit after it and a further sync changes nothing, every path has the same
\* content on both replicas, for every interleaving of the sync steps.
C4_Original ==
    (syncpc = Idle /\ (\A r \in Repos : hist.moved[r]) /\ NoSyncChangesRefs) =>
        \A p \in Paths : Content("A", p) = Content("B", p)

\* the backend records no session branch and no session index
BackendIdle(w) == w.g.branch = None /\ w.g.index = None

\* C23 as stated: start_session leaves the backend Active; after close_session
\* and after rollback the backend is Idle: no session branch and no session
\* index is recorded, and start_session is permitted again.
C23_Original ==
    /\ (hist.last = "write") => (W.g.branch # None /\ W.g.index # None)
    /\ (hist.last = "exit") =>
            (BackendIdle(W) /\ start_session(W, "session/sakdbsession.1").ok)
    /\ (hist.last = "rollback" /\ W.g.touched) =>
            (BackendIdle(W) /\ start_session(W, "session/sakdbsession.1").ok)

\* C24 as stated: whenever no session is current on the graph, its namespace
\* records no session branch and no index, and the repository holds no
\* session/* branch: the branch start_session made is gone once the scope has
\* exited, normally, after a rollback or by an exception.
C24_Original ==
    (W.g.current_session = None) =>
        /\ BackendIdle(W)
        /\ \A b \in {SessionBranch} \cup SuffixedBranches : W.rf[b] = NoRef

\* the <<key, crc>> of the fields of an FR, in order
KeyCrcs(fr) == [i \in 1..Len(fr) |-> <<fr[i].key, fr[i].crc>>]

\* every FR the scope staged has the keys and crcs of the FR stored at its path
\* before the session, and some FR was staged
Rewritten ==
    /\ \E p \in ObjectPaths : hist.durable[p] # None
    /\ \A p \in ObjectPaths :
          (hist.durable[p] # None) =>
              /\ PreValue(p).ok /\ PreValue(p).val # None
              /\ KeyCrcs(hist.durable[p][1]) = KeyCrcs(PreValue(p).val[1])

\* C25 as stated: after the first apply of a session (a normal exit with no
\* Session.commit() before it), every field on the namespace branch whose key
\* and crc equal those of the field stored at the path before has that stored
\* field's ts; and a session that re-wrote only unchanged values made no commit.
C25_Original ==
    (hist.last = "exit" /\ ~hist.committed) =>
        /\ \A p \in ObjectPaths :
              (PreValue(p).ok /\ PreValue(p).val # None
                    /\ ReadFresh(p).ok /\ ReadFresh(p).val # None) =>
                \A i \in 1..Len(ReadFresh(p).val[1]), j \in 1..Len(PreValue(p).val[1]) :
                    (/\ ReadFresh(p).val[1][i].key = PreValue(p).val[1][j].key
                     /\ ReadFresh(p).val[1][i].crc = PreValue(p).val[1][j].crc) =>
                        ReadFresh(p).val[1][i].ts = PreValue(p).val[1][j].ts
        /\ Rewritten => (W.rf[Master] = hist.tip)

\* every FR the session has staged encodes to the blob already at its path on
\* the session branch
IdenticalApply(w) ==
    /\ w.g.touched /\ w.g.branch # None
    /\ \E p \in Paths : w.g.changes[p] # None
    /\ \A p \in Paths :
          (w.g.changes[p] # None) =>
              /\ sakdb_dumps(w.g.changes[p][1]).ok
              /\ read_blob(w, w.g.branch[1], p) = Some(sakdb_dumps(w.g.changes[p][1]).text)

\* C26: identical-blob write is a no-op.  When every staged FR encodes to the
\* blob already on the session branch, Session.commit() leaves the session
\* index, the session branch tip and the namespace branch tip unchanged and
\* creates no commit; and a normal exit of a session that applied nothing else
\* creates no commit and leaves the namespace branch tip unchanged.
C26_IdenticalBlobNoOp ==
    [][/\ (IdenticalApply(W) /\ hist'.last = "commit") =>
            /\ commits' = commits
            /\ graphs'["A"].index = graphs["A"].index
            /\ refs'["A"] = refs["A"]
       /\ (IdenticalApply(W) /\ ~hist.committed /\ hist'.last = "exit") =>
            /\ commits' = commits
            /\ refs'["A"][Master] = refs["A"][Master]]_vars

\* a session that wrote again the FR stored at the path, ts included, has exited
C26_Witness ==
    /\ hist.last = "exit" /\ ~hist.committed
    /\ hist.durable[MetaPath] # None /\ hist.durable[MetaPath][1] # <<>>
    /\ sakdb_dumps(hist.durable[MetaPath][1]).ok
    /\ hist.pre[MetaPath] = Some(sakdb_dumps(hist.durable[MetaPath][1]).text)
    /\ W.rf[Master] = hist.tip

\* C27 as stated: a session that wrote, called no Session.commit() and exited
\* normally has added at most one commit to the history of the namespace branch.
C27_Original ==
    (hist.last = "exit" /\ ~hist.committed) =>
        Cardinality(Ancestors(commits, W.rf[Master]) \ Ancestors(commits, hist.tip)) <= 1

\* C28: with no base and exactly one of ours and theirs present, merge returns
\* that side's fields as they are: the same fields in the same order,
\* duplicate keys kept, nothing sorted.
C28_OneSideVerbatim ==
    (fn.done /\ fn.base = None) =>
        /\ (fn.ours # None /\ fn.theirs = None) => (fn.out = Some(fn.ours[1]))
        /\ (fn.ours = None /\ fn.theirs # None) => (fn.out = Some(fn.theirs[1]))

\* merge(None, ours, None) was applied to two fields whose keys are not in
\* sorted order
C28_Witness ==
    /\ fn.done /\ fn.base = None /\ fn.theirs = None /\ fn.ours # None
    /\ Len(fn.ours[1]) = 2
    /\ StrLess(fn.ours[1][2].key, fn.ours[1][1].key)
    /\ fn.out = Some(fn.ours[1])

\* C29 as stated: with a base present, merge(base, absent, absent) returns the
\* FR with no fields, and merge of the base with exactly one of ours and theirs
\* present returns the present side.
C29_Original ==
    (fn.done /\ fn.base # None) =>
        /\ (fn.ours = None /\ fn.theirs = None) => (fn.out = Some(<<>>))
        /\ (fn.ours # None /\ fn.theirs = None) => (fn.out = Some(fn.ours[1]))
        /\ (fn.ours = None /\ fn.theirs # None) => (fn.out = Some(fn.theirs[1]))

\* the fields of key k the replicas held after their last edits
HeldFields(k) ==
    UNION {Range(SelectSeq(hist.held[r][1], LAMBDA f : f.key = k)) :
                r \in {q \in Repos : hist.held[q] # None}}

\* the keys of the fields the replicas held
HeldKeys ==
    UNION {Range(get_keys(hist.held[r][1])) : r \in {q \in Repos : hist.held[q] # None}}

\* the object as a replica reads it from its namespace branch
ReadObject(r) == LoadBlob(Content(r, MetaPath))

\* both replicas hold edits made with no common base or after a common synced
\* base, and exactly three sync() runs followed, by x, by the other, by x
ThreeSyncs ==
    /\ hist.scenario \in {"nobase", "based"}
    /\ \A r \in Repos : hist.held[r] # None
    /\ Len(hist.syncs) = 3
    /\ hist.syncs[1].r = hist.syncs[3].r
    /\ hist.syncs[1].r # hist.syncs[2].r

\* C30: three syncs suffice for two replicas.  When both replicas hold edits
\* of the object, made with no common base or after a common synced base, then
\* after A.sync(); B.sync(); A.sync() with no write in between no sync has
\* raised, both replicas read the same fields, and for every key that is a
\* field one of them held, with the latest timestamp among the held ones.
C30_ThreeSyncsSuffice ==
    ThreeSyncs =>
        /\ \A i \in 1..3 : hist.syncs[i].ok
        /\ ReadObject("A").ok /\ ReadObject("A").val # None
        /\ ReadObject("B") = ReadObject("A")
        /\ Range(get_keys(ReadObject("A").val[1])) = HeldKeys
        /\ \A k \in HeldKeys :
              /\ get_by_key(ReadObject("A").val[1], k)[1] \in HeldFields(k)
              /\ \A f \in HeldFields(k) : f.ts <= get_by_key(ReadObject("A").val[1], k)[1].ts

\* the replicas edited the same key with different timestamps after a common
\* synced base, and the three syncs have run
C30_Witness ==
    /\ ThreeSyncs
    /\ hist.scenario = "based"
    /\ \E k \in HeldKeys : \E f \in HeldFields(k), g \in HeldFields(k) : f.ts < g.ts
    /\ ReadObject("B") = ReadObject("A")

\* the same with no common base
NoBaseReached ==
    /\ ThreeSyncs
    /\ hist.scenario = "nobase"
    /\ \E k \in HeldKeys : \E f \in HeldFields(k), g \in HeldFields(k) : f.ts < g.ts

\* C22: encoding fails exactly when the key or the crc of some field holds the
\* separator "&" (they are the strings of the compact header JSON); it then
\* produces no text; a separator in a payload never makes it fail.
C22_EncodeFailsOnHeaderSeparator ==
    (fn.stage # "input") =>
        /\ (fn.stage = "raised") <=> SeparatorInKey(fn.fr)
        /\ (fn.stage = "raised") => (fn.text = None /\ fn.out = None)
        /\ (~SeparatorInKey(fn.fr)) => (fn.text # None)

\* an encoding that raised for a key with the separator, and one field of the
\* FR has the separator in its payload only
C22_Witness ==
    /\ fn.stage = "raised"
    /\ fn.text = None
    /\ \E i \in 1..Len(fn.fr) : PAYLOAD_SEPARATOR \in Range(fn.fr[i].key)
    /\ \E i \in 1..Len(fn.fr) :
            /\ PAYLOAD_SEPARATOR \in Range(fn.fr[i].payload)
            /\ PAYLOAD_SEPARATOR \notin Range(fn.fr[i].key)

----------------------------------------------------------------------------
(* sakdb_storage.py: SakDbObject and SakDbList, a list attribute *)

\* str.startswith
StartsWith(s, prefix) == Len(s) >= Len(prefix) /\ SubSeq(s, 1, Len(prefix)) = prefix

keep_by_key_prefix(fr, prefix) == fr

\* SakDbFields.drop_by_key_prefix
drop_by_key_prefix(fr, prefix) == SelectSeq(fr, LAMBDA f : ~StartsWith(f.key, prefix))

\* the attribute of the object k whose list is read and written
ListName == <<"l">>

\* f"_{name}:type"
TypeKey(name) == <<"_">> \o name \o <<":", "type">>

\* f"{name}:"
ItemPrefix(name) == name \o <<":">>

\* json.dumps of the payload "list" is the payload itself in the model's alphabet
ListType == <<"list">>

\* SakDbObject.__setattr__, the fields of a list value: the type field, then
\* one field per element, keyed f"{name}:{idx}", payload json.dumps(element)
list_fields(name, value, ts) ==
    <<SakDbField(ListType, ts, TypeKey(name))>> \o
    [i \in 1..Len(value) |-> SakDbField(NatToStr(value[i]), ts, ItemPrefix(name) \o NatToStr(i - 1))]

\* the FR read_sakdb returned is the staged object itself: dropping fields
\* from it changes what the session has staged
drop_previous(w, path, kept) ==
    IF w.g.current_session # None /\ read_from_session(w, path) # None
    THEN [w EXCEPT !.g.changes[path] = Some(kept)]
    ELSE w

\* SakDbObject.__setattr__ with a list value at time ts
setattr_list(w, name, value, ts) ==
    Let(read_sakdb(w, MetaPath), LAMBDA prev :
        IF ~prev.ok THEN Raise(w)
        ELSE IF prev.val = None
        THEN write_sakdb(w, MetaPath, list_fields(name, value, ts), SessionBranch)
        ELSE Let(drop_by_key_prefix(drop_by_key_prefix(prev.val[1], TypeKey(name)),
                                    ItemPrefix(name)), LAMBDA kept :
                 write_sakdb(drop_previous(w, MetaPath, kept), MetaPath,
                             merge(None, Some(list_fields(name, value, ts)), Some(kept)),
                             SessionBranch)))

\* SakDbObject.__getattribute__ of a list attribute: [ok, val]; the elements
\* are the payloads of the fields under the prefix, in the order of the FR
getattr_list(w, name) ==
    Let(read_sakdb(w, MetaPath), LAMBDA data :
        IF ~data.ok \/ data.val = None THEN [ok |-> FALSE, val |-> <<>>]
        ELSE IF get_by_key(data.val[1], TypeKey(name)) = None
        THEN [ok |-> FALSE, val |-> <<>>]
        ELSE IF get_by_key(data.val[1], TypeKey(name))[1].payload # ListType
        THEN [ok |-> FALSE, val |-> <<>>]
        ELSE Let(SelectSeq(data.val[1], LAMBDA f : StartsWith(f.key, ItemPrefix(name))),
                 LAMBDA items :
                    IF \A i \in 1..Len(items) : IsDigits(items[i].payload)
                    THEN [ok |-> TRUE, val |-> [i \in 1..Len(items) |-> StrToNat(items[i].payload)]]
                    ELSE [ok |-> FALSE, val |-> <<>>]))

\* SakDbList.append(x): the list read, changed, then assigned again
list_append(l, x) == Append(l, x)

\* SakDbList.__setitem__(i, x)
list_setitem(l, i, x) == [l EXCEPT ![i + 1] = x]

\* SakDbList.pop()
list_pop(l) == SubSeq(l, 1, Len(l) - 1)

\* the attribute of the object k whose dict is read and written
DictName == <<"d">>

DictType == <<"dict">>

\* SakDbObject.__setattr__, the fields of a dict value, a sequence of
\* <<key, value>> pairs in the order of value.items(): the type field, then
\* one field per item, keyed f"{name}:{ikey}", payload json.dumps(ivalue)
dict_fields(name, value, ts) ==
    <<SakDbField(DictType, ts, TypeKey(name))>> \o
    [i \in 1..Len(value) |-> SakDbField(NatToStr(value[i][2]), ts, ItemPrefix(name) \o <<value[i][1]>>)]

\* SakDbObject.__setattr__ with a dict value at time ts
setattr_dict(w, name, value, ts) ==
    Let(read_sakdb(w, MetaPath), LAMBDA prev :
        IF ~prev.ok THEN Raise(w)
        ELSE IF prev.val = None
        THEN write_sakdb(w, MetaPath, dict_fields(name, value, ts), SessionBranch)
        ELSE Let(drop_by_key_prefix(drop_by_key_prefix(prev.val[1], TypeKey(name)),
                                    ItemPrefix(name)), LAMBDA kept :
                 write_sakdb(drop_previous(w, MetaPath, kept), MetaPath,
                             merge(None, Some(dict_fields(name, value, ts)), Some(kept)),
                             SessionBranch)))

\* SakDbObject.__getattribute__ of a dict attribute: [ok, val]; the items are
\* the fields under the prefix, in the order of the FR, keyed by the rest of
\* the field key after the first colon
getattr_dict(w, name) ==
    Let(read_sakdb(w, MetaPath), LAMBDA data :
        IF ~data.ok \/ data.val = None THEN [ok |-> FALSE, val |-> <<>>]
        ELSE IF get_by_key(data.val[1], TypeKey(name)) = None
        THEN [ok |-> FALSE, val |-> <<>>]
        ELSE IF get_by_key(data.val[1], TypeKey(name))[1].payload # DictType
        THEN [ok |-> FALSE, val |-> <<>>]
        ELSE Let(SelectSeq(data.val[1], LAMBDA f : StartsWith(f.key, ItemPrefix(name))),
                 LAMBDA items :
                    IF \A i \in 1..Len(items) :
                          IsDigits(items[i].payload) /\ Len(items[i].key) = Len(name) + 2
                    THEN [ok |-> TRUE,
                          val |-> [i \in 1..Len(items) |->
                                      <<items[i].key[Len(name) + 2], StrToNat(items[i].payload)>>]]
                    ELSE [ok |-> FALSE, val |-> <<>>]))

\* SakDbDict.pop(k), for a key of the dict
dict_pop(d, k) == SelectSeq(d, LAMBDA kv : kv[1] # k)

\* SakDbDict.__delitem__(k), for a key of the dict
dict_delitem(d, k) == SelectSeq(d, LAMBDA kv : kv[1] # k)

\* SakDbDict.clear()
dict_clear(d) == <<>>

----------------------------------------------------------------------------
(* SpecList: sessions on one graph that assign, append to, set and pop a list
   attribute of one object *)

MaxListLen == 11    \* lists have at most MaxListLen elements
MaxListOps == 3     \* at most MaxListOps assignments are made

\* [0, 1, ..., n - 1]
Iota(n) == [i \in 1..n |-> i - 1]

\* the lengths of the lists assigned whole
AssignedLens == {0, 2, MaxListLen - 1, MaxListLen}

\* the element append and __setitem__ store
NewElement == 42

InitList ==
    /\ InitSession

\* with graph.session():
OpenList ==
    /\ hist.sid <= MaxSessions
    /\ hist.live = {}
    /\ \E r \in {graph_session(W.g, hist.sid)} :
           /\ graphs' = [graphs EXCEPT !["A"] = r.g]
           /\ hist' = [hist EXCEPT !.last = "session", !.sid = @ + 1, !.live = {hist.sid}]
    /\ UNCHANGED <<commits, refs, syncpc, fn>>

\* the assignment of value to obj.l inside the scope
SetList(value, op) ==
    /\ hist.live # {}
    /\ hist.nwrites < MaxListOps
    /\ \E r \in {setattr_list(W, ListName, value, InitTs["A"] + hist.nwrites + 1)} :
           /\ Put(r.w)
           /\ hist' = [hist EXCEPT !.last = IF r.ok THEN op ELSE "setattr_raise",
                                    !.nwrites = @ + 1,
                                    !.expect = IF r.ok THEN Some(value) ELSE @]
    /\ UNCHANGED <<syncpc, fn>>

\* obj.l = [0, ..., n - 1]
AssignList ==
    /\ hist.live # {}
    /\ \E n \in AssignedLens : SetList(Iota(n), "assign")

\* obj.l.append(x)
AppendList ==
    /\ getattr_list(W, ListName).ok
    /\ Len(getattr_list(W, ListName).val) < MaxListLen
    /\ SetList(list_append(getattr_list(W, ListName).val, NewElement), "append")

\* obj.l[i] = x
SetItemList ==
    /\ getattr_list(W, ListName).ok
    /\ \E i \in {0, Len(getattr_list(W, ListName).val) - 1} :
           /\ i >= 0
           /\ i < Len(getattr_list(W, ListName).val)
           /\ SetList(list_setitem(getattr_list(W, ListName).val, i, NewElement), "setitem")

\* obj.l.pop()
PopList ==
    /\ getattr_list(W, ListName).ok
    /\ getattr_list(W, ListName).val # <<>>
    /\ SetList(list_pop(getattr_list(W, ListName).val), "pop")

\* the scope exits normally
ExitList ==
    /\ hist.live # {}
    /\ \E r \in {session_exit(W, FALSE)} :
           /\ Put(r.w)
           /\ hist' = [hist EXCEPT !.last = IF r.ok THEN "exit" ELSE "exit_raise",
                                    !.live = {}]
    /\ UNCHANGED <<syncpc, fn>>

\* the dicts assigned whole
AssignedDicts == {<<>>, << <<"x", 1>> >>, << <<"x", 1>>, <<"y", 2>> >>}

\* the assignment of value to obj.d inside the scope
SetDict(value, op) ==
    /\ hist.live # {}
    /\ hist.nwrites < MaxListOps
    /\ \E r \in {setattr_dict(W, DictName, value, InitTs["A"] + hist.nwrites + 1)} :
           /\ Put(r.w)
           /\ hist' = [hist EXCEPT !.last = IF r.ok THEN op ELSE "setattr_raise",
                                    !.nwrites = @ + 1,
                                    !.expectd = IF r.ok THEN Some(value) ELSE @]
    /\ UNCHANGED <<syncpc, fn>>

\* obj.d = {...}
AssignDict ==
    /\ hist.live # {}
    /\ \E d \in AssignedDicts : SetDict(d, "assign_dict")

\* obj.d.pop(k)
PopDict ==
    /\ getattr_dict(W, DictName).ok
    /\ \E kv \in Range(getattr_dict(W, DictName).val) :
           SetDict(dict_pop(getattr_dict(W, DictName).val, kv[1]), "pop_dict")

\* del obj.d[k]
DelDict ==
    /\ getattr_dict(W, DictName).ok
    /\ \E kv \in Range(getattr_dict(W, DictName).val) :
           SetDict(dict_delitem(getattr_dict(W, DictName).val, kv[1]), "del_dict")

\* obj.d.clear()
ClearDict ==
    /\ getattr_dict(W, DictName).ok
    /\ SetDict(dict_clear(getattr_dict(W, DictName).val), "clear_dict")

NextList ==
    \/ OpenList \/ AssignList \/ AppendList \/ SetItemList \/ PopList \/ ExitList
    \/ AssignDict \/ PopDict \/ DelDict \/ ClearDict

SpecList == InitList /\ [][NextList]_vars

\* C21 as stated: the list attribute read back, in the session that assigned
\* it, after the session, after a later session appended to, set or popped an
\* element of it, and through another graph on the repository once the session
\* has exited, equals the list last assigned: same length, same element order.
C21_Original ==
    (hist.expect # None /\ hist.last # "exit_raise") =>
        /\ getattr_list(W, ListName) = [ok |-> TRUE, val |-> hist.expect[1]]
        /\ (hist.live = {}) =>
                getattr_list([W EXCEPT !.g = NewGraph], ListName)
                    = [ok |-> TRUE, val |-> hist.expect[1]]

----------------------------------------------------------------------------
(* Properties of sync() *)

\* C31: sync never discards local commits.  Whenever a run of sync() moves the
\* namespace branch of a replica, the previous tip of the branch is the new
\* tip or an ancestor of it, whatever the synced branch was when the run
\* began: absent, behind, ahead after the remote's push, or diverged.
C31_SyncKeepsLocalCommits ==
    [][\A r \in Repos :
         (hist'.nwrites = hist.nwrites /\ refs'[r][Master] # refs[r][Master]) =>
            refs[r][Master] \in Ancestors(commits', refs'[r][Master])]_vars

\* a run of sync() has moved the namespace branch of A onto a merge of its
\* own commits with a synced branch that the remote had pushed
C31_Witness ==
    /\ hist.moved["A"]
    /\ refs["A"][Master] = refs["A"][Synced]
    /\ Len(commits[refs["A"][Master]].parents) = 2
    /\ \E f \in hist.written : f.payload = <<"p">>
    /\ \E f \in hist.written : f.payload = <<"q">>
    /\ \A i \in 1..2 :
          LoadBlob(commits[commits[refs["A"][Master]].parents[i]].tree[MetaPath]).val # None

\* the commits do_merge created: those with two parents
MergeCommits == {c \in 1..Len(commits) : Len(commits[c].parents) = 2}

\* what repo.merge_commits reported for the parents of the merge commit c
MergedIndex(c) == merge_commits(commits, commits[c].parents[1], commits[c].parents[2])

\* the three blobs of path p decoded, for the merge commit c with merged index m
Decoded(c, m, p) ==
    <<LoadBlob(m.base[p]),
      LoadBlob(commits[commits[c].parents[1]].tree[p]),
      LoadBlob(commits[commits[c].parents[2]].tree[p])>>

\* C32: conflict resolution uses the field-level merge.  In the tree of every
\* merge commit made by sync or by a session close, the blob of each path git
\* reported as conflicted is the encoding of merge(base, ours, theirs) of the
\* three decoded blobs, absent where the blob is absent; every other path
\* holds what git merged, so no conflict is left in the tree.
C32_ConflictsUseFieldMerge ==
    \A c \in MergeCommits :
        \E m \in {MergedIndex(c)} :
            \A p \in Paths :
                IF m.index[p].conflict
                THEN \E l \in {Decoded(c, m, p)} :
                        /\ l[1].ok /\ l[2].ok /\ l[3].ok
                        /\ sakdb_dumps(merge(l[1].val, l[2].val, l[3].val)).ok
                        /\ commits[c].tree[p]
                              = Some(sakdb_dumps(merge(l[1].val, l[2].val, l[3].val)).text)
                ELSE commits[c].tree[p] = m.index[p].blob

\* a merge commit whose parents conflicted on the object's file, each holding
\* a field of the same key
C32_Witness ==
    \E c \in MergeCommits :
        /\ MergedIndex(c).index[MetaPath].conflict
        /\ \E l \in {Decoded(c, MergedIndex(c), MetaPath)} :
              /\ l[2].ok /\ l[2].val # None /\ l[3].ok /\ l[3].val # None
              /\ Range(get_keys(l[2].val[1])) \cap Range(get_keys(l[3].val[1])) # {}

----------------------------------------------------------------------------
(* SpecRemoval: the replicas write the whole object, with two fields or with
   one of them only, and run sync() *)

\* the objects a replica writes: both fields, or key a alone at a later time
RemovalRecords(r) ==
    LET payload == IF r = "A" THEN <<"p">> ELSE <<"q">>
    IN  {<<SakDbField(payload, 1, <<"a">>), SakDbField(payload, 1, <<"b">>)>>,
         <<SakDbField(payload, 2, <<"a">>)>>}

\* the keys of the object on the namespace branch of a replica
ObjectKeys(r) ==
    IF ReadObject(r).ok /\ ReadObject(r).val # None
    THEN Range(get_keys(ReadObject(r).val[1])) ELSE {}

\* with graph.session(): namespace.write_sakdb(path, fr), by replica r
WriteRecord(r) ==
    /\ hist.nwrites < MaxSyncWrites
    /\ \E fr \in RemovalRecords(r) :
          \E x \in {write_session(World(S, r), MetaPath, fr)} :
              /\ fr[1].ts > hist.clock[r]
              /\ x.ok
              /\ Len(x.w.cs) <= MaxCommits
              /\ PutS([S EXCEPT !.cs = x.w.cs, !.refs[r] = x.w.rf, !.graphs[r] = x.w.g])
              /\ hist' = [hist EXCEPT !.nwrites = @ + 1,
                                       !.written = @ \cup Range(fr),
                                       !.moved[r] = FALSE, !.clock[r] = fr[1].ts,
                                       !.removed = (ObjectKeys(r) \ Range(get_keys(fr)))
                                                        \cap ObjectKeys(Remote(r))]
    /\ UNCHANGED <<syncpc, fn>>

NextRemoval == \E r \in Repos : WriteRecord(r) \/ SyncRun(r)

SpecRemoval == InitSync /\ [][NextRemoval]_vars

\* C33 as stated: once the replicas have synced until a further sync changes
\* no ref, every field that the last write removed from the object on one
\* replica while the other replica's object held it is in the object again on
\* both replicas, whether or not the other replica changed the object since
\* the common base.
C33_Original ==
    (NoSyncChangesRefs /\ \A r \in Repos : sync(S, r).ok) =>
        \A k \in hist.removed : \A r \in Repos : k \in ObjectKeys(r)

\* sync() of replica r twice in a row: the outcomes of the two runs
SyncTwice(r) == Let(sync(S, r), LAMBDA x : [first |-> x, second |-> sync(x.s, r)])

\* C34: when a replica runs sync() twice in a row, with no write and no change
\* of the remote in between, the second run creates no commit and leaves every
\* ref of both repositories as the first run left it.
C34_SyncIdempotentAtRest ==
    \A r \in Repos : \E x \in {SyncTwice(r)} :
        /\ x.second.s.cs = x.first.s.cs
        /\ x.second.s.refs = x.first.s.refs
        /\ x.second.ok = x.first.ok

\* the first of the two runs made a merge commit and moved the refs
C34_Witness ==
    \E r \in Repos : \E x \in {SyncTwice(r)} :
        /\ x.first.ok
        /\ Len(x.first.s.cs) = Len(commits) + 1
        /\ x.first.s.refs[r][Master] # refs[r][Master]
        /\ x.first.s.refs[Remote(r)][Synced] # refs[Remote(r)][Synced]
        /\ x.second.s.refs = x.first.s.refs

\* C35: in a replica's repository every branch other than synced/B (the
\* namespace branch B, the session branches, the remote-tracking branches)
\* moves only through that replica's own session or its own sync(), never
\* through a sync() run by the other replica.
C35_RemoteSyncMovesOnlySynced ==
    [][\A o \in Repos : \A n \in RefNames \ {Synced} :
         refs'[o][n] # refs[o][n] =>
            \/ hist'.clock[o] # hist.clock[o]
            \/ \E x \in {sync(S, o)} : refs' = x.s.refs /\ commits' = x.s.cs]_vars

\* replica A's sync() has pushed its merge to B's synced/B while B's namespace
\* branch stays on B's own unsynced write
C35_Witness ==
    /\ hist.moved["A"]
    /\ refs["B"][Synced] = refs["A"][Master]
    /\ refs["B"][Master] # NoRef
    /\ refs["B"][Master] \notin Ancestors(commits, refs["B"][Synced])
    /\ refs["B"][Synced] \notin Ancestors(commits, refs["B"][Master])

----------------------------------------------------------------------------
(* Properties of merge() *)

\* the bases compared: absent, empty, and every one-field base, up to a ts
\* above every ts of the sides
ComparedBases ==
    Optional({<<>>} \cup {<<SakDbField(<<"p">>, t, k)>> : t \in 1..(MaxTs + 1), k \in Keys})

\* C36: for present ours and theirs, merge(base, ours, theirs) is the same for
\* every base, absent or present; its keys are keys of ours or theirs, so a key
\* of the base alone is absent, and no ts of the base decides a field.
C36_BaseIndependence ==
    BothPresent =>
        /\ \A b \in ComparedBases : merge(b, fn.ours, fn.theirs) = fn.out[1]
        /\ Range(get_keys(fn.out[1])) \subseteq
               Range(get_keys(fn.ours[1])) \cup Range(get_keys(fn.theirs[1]))

\* merge was applied to a base with key a, which neither side holds, and two
\* non-empty sides
C36_Witness ==
    /\ BothPresent
    /\ fn.base # None /\ get_keys(fn.base[1]) = << <<"a">> >>
    /\ get_keys(fn.ours[1]) = << <<"b">> >>
    /\ get_keys(fn.theirs[1]) = << <<"b">> >>
    /\ fn.ours[1][1].ts < fn.theirs[1][1].ts
    /\ fn.out = Some(fn.theirs[1])

----------------------------------------------------------------------------
(* SpecTwoGraphs: two Graphs, named A and B, each with its own
   SakDbNamespaceGit, bound to one repository and one namespace branch; the
   repository's refs are refs["A"] *)

MaxScopes == 2          \* with-scopes per Graph
MaxGraphWrites == 3     \* calls of write_sakdb by both Graphs

\* the repository as Graph g sees it
WG(g) == [cs |-> commits, rf |-> refs["A"], g |-> graphs[g]]

PutG(g, w) ==
    /\ commits' = w.cs
    /\ refs' = [refs EXCEPT !["A"] = w.rf]
    /\ graphs' = [graphs EXCEPT ![g] = w.g]

\* Graph A's namespace creates the repository, Graph B's opens it
InitTwoGraphs ==
    \E w \in {Construct(<<>>, InitTs["A"])} :
        \E v \in {open_namespace(w, InitTs["B"])} :
            /\ v.ok
            /\ commits = v.w.cs
            /\ refs = [r \in Repos |-> IF r = "A" THEN v.w.rf ELSE NoRefs]
            /\ graphs = [r \in Repos |-> IF r = "A" THEN w.g ELSE v.w.g]
            /\ syncpc = Idle
            /\ hist = NoHist
            /\ fn = NoCall

\* with graph.session(): on Graph g
OpenScope(g) ==
    /\ hist.scopes[g] < MaxScopes
    /\ \E r \in {graph_session(graphs[g], hist.scopes[g] + 1)} :
           /\ r.ok
           /\ graphs' = [graphs EXCEPT ![g] = r.g]
           /\ hist' = [hist EXCEPT !.scopes[g] = @ + 1, !.phase[g] = "open",
                                    !.wrote[g] = {}, !.given[g] = {}, !.made[g] = {},
                                    !.overlap = FALSE]
    /\ UNCHANGED <<commits, refs, syncpc, fn>>

\* namespace.write_sakdb(path, <<f>>) in the scope of Graph g; the first write
\* of a scope starts the namespace's session
WriteScope(g) ==
    /\ hist.phase[g] \in {"open", "started"}
    /\ hist.nwrites < MaxGraphWrites
    /\ \E f \in Fields, suffix \in SuffixedBranches :
          \E r \in {write_sakdb(WG(g), MetaPath, <<f>>, suffix)} :
              /\ f.ts >= hist.clock["A"]
              /\ r.ok
              /\ PutG(g, r.w)
              /\ hist' = [hist EXCEPT !.nwrites = @ + 1, !.clock["A"] = f.ts,
                                       !.phase[g] = "started",
                                       !.wrote[g] = Range(r.w.g.changes[MetaPath][1]),
                                       !.given[g] = @ \cup {f},
                                       !.overlap = @ \/ hist.phase[Remote(g)] = "started"]
    /\ UNCHANGED <<syncpc, fn>>

\* the scope of Graph g is left normally
ExitScope(g) ==
    /\ hist.phase[g] \in {"open", "started"}
    /\ \E r \in {session_exit(WG(g), FALSE)} :
           /\ PutG(g, r.w)
           /\ hist' = [hist EXCEPT !.phase[g] = IF ~r.ok THEN "raised"
                                                 ELSE IF @ = "started" THEN "closed" ELSE "none",
                                    !.made[g] = (Len(commits) + 1)..Len(r.w.cs)]
    /\ UNCHANGED <<syncpc, fn>>

NextTwoGraphs == \E g \in Repos : OpenScope(g) \/ WriteScope(g) \/ ExitScope(g)

SpecTwoGraphs == InitTwoGraphs /\ [][NextTwoGraphs]_vars

\* the fields of key k that the Graphs staged in their last scopes
WritesOf(k) == {f \in hist.wrote["A"] \cup hist.wrote["B"] : f.key = k}

\* the object on the namespace branch of the shared repository
SharedObject == LoadBlob(TreeAt(WG("A"), Master)[MetaPath])

\* the fields of key k that the Graphs passed to write_sakdb in their last scopes
GivenOf(k) == {f \in hist.given["A"] \cup hist.given["B"] : f.key = k}

\* both Graphs' sessions were started at one time and both have closed normally
BothClosed == hist.overlap /\ hist.phase["A"] = "closed" /\ hist.phase["B"] = "closed"

----------------------------------------------------------------------------
(* sakdb_storage.py: SakDbGraph.get_object over SakDbNamespace.get_object.
   A namespace is [objects, stored]: the keys of the objects it has
   registered, and the keys whose _cl blob its backend holds.  An object is
   named by the position of its namespace and its key. *)

\* SakDbNamespace.get_object of the i-th namespace: [ok, val, nss]; the object
\* is returned from self.objects, or is made from the stored class name and
\* registered; a key with no _cl blob raises
namespace_get_object(nss, i, key) ==
    IF key \in nss[i].objects THEN [ok |-> TRUE, val |-> Some(<<i, key>>), nss |-> nss]
    ELSE IF key \notin nss[i].stored THEN [ok |-> FALSE, val |-> None, nss |-> nss]
    ELSE [ok |-> TRUE, val |-> Some(<<i, key>>),
          nss |-> [nss EXCEPT ![i].objects = @ \cup {key}]]

\* SakDbGraph.get_object: the loop over self.namespaces.values() from the i-th on
RECURSIVE get_object_from(_, _, _)
get_object_from(nss, i, key) ==
    IF i > Len(nss) THEN [ok |-> TRUE, val |-> None, nss |-> nss]
    ELSE Let(namespace_get_object(nss, i, key), LAMBDA r :
             IF ~r.ok THEN r
             ELSE IF r.val # None THEN r
             ELSE get_object_from(r.nss, i + 1, key))

graph_get_object(nss, key) == get_object_from(nss, 1, key)

(* SpecLookup: get_object(key) on a Graph with up to MaxNamespaces namespaces *)

MaxNamespaces == 2

ObjectKeyNames == {"k1", "k2"}

\* the namespaces: every registered object is stored or was made in the scope
NamespaceStates ==
    {[objects |-> o, stored |-> s] : o \in SUBSET ObjectKeyNames, s \in SUBSET ObjectKeyNames}

InitLookup ==
    /\ commits = <<>>
    /\ refs = [r \in Repos |-> NoRefs]
    /\ graphs = [r \in Repos |-> NewGraph]
    /\ syncpc = Idle
    /\ hist = NoHist
    /\ fn \in [namespaces : SeqsUpTo(NamespaceStates, MaxNamespaces),
                key : ObjectKeyNames, out : {None}, done : {FALSE}]

\* graph.get_object(key)
ApplyLookup ==
    /\ ~fn.done
    /\ \E r \in {graph_get_object(fn.namespaces, fn.key)} :
          fn' = [fn EXCEPT !.out = Some([ok |-> r.ok, val |-> r.val]),
                           !.namespaces = r.nss, !.done = TRUE]
    /\ UNCHANGED <<commits, refs, graphs, syncpc, hist>>

NextLookup == ApplyLookup

SpecLookup == InitLookup /\ [][NextLookup]_vars

\* the namespaces that hold the key, by position
Holders(nss, key) == {i \in 1..Len(nss) : key \in nss[i].objects \cup nss[i].stored}

\* the least number of a non-empty set of numbers
Least(N) == CHOOSE i \in N : \A j \in N : i <= j

\* C38 as stated: get_object(key) returns the object of the first namespace, in
\* iteration order, that holds the key, also when earlier namespaces do not
\* hold it, and returns the absent value when no namespace holds it.
C38_Original ==
    fn.done =>
        \E h \in {Holders(fn.namespaces, fn.key)} :
            fn.out[1] = [ok |-> TRUE,
                         val |-> IF h = {} THEN None ELSE Some(<<Least(h), fn.key>>)]

----------------------------------------------------------------------------
(* Properties of collection attributes *)

\* the fields under the prefix f"{name}:" of the FR that namespace.read gives
ElementFields(name) ==
    Let(read_sakdb(W, MetaPath), LAMBDA data :
        IF ~data.ok \/ data.val = None THEN {}
        ELSE {f \in Range(data.val[1]) : StartsWith(f.key, ItemPrefix(name))})

\* key and payload of the fields of a set or sequence of fields
KeyPayloads(fs) == {<<f.key, f.payload>> : f \in fs}

\* the element fields of the values last assigned, the type fields left out
ListElements == KeyPayloads(Range(Tail(list_fields(ListName, hist.expect[1], 0))))

DictElements == KeyPayloads(Range(Tail(dict_fields(DictName, hist.expectd[1], 0))))

\* C39: once a list or dict attribute has been assigned, also with fewer
\* elements than before and through pop, clear or del on the wrapper, the FR
\* holds under the attribute's prefix the element fields of the new value and
\* no other: in the session, where the FR is the staged one, and after it has
\* closed; whether the previous value was staged in the session or committed
\* by an earlier one.
C39_ShrinkRemovesSurplus ==
    /\ hist.expect # None => KeyPayloads(ElementFields(ListName)) = ListElements
    /\ hist.expectd # None => KeyPayloads(ElementFields(DictName)) = DictElements

\* the number of fields under the prefix in the object of commit c
ElementsAt(c, name) ==
    Let(LoadBlob(commits[c].tree[MetaPath]), LAMBDA data :
        IF ~data.ok \/ data.val = None THEN 0
        ELSE Cardinality({i \in 1..Len(data.val[1]) :
                             StartsWith(data.val[1][i].key, ItemPrefix(name))}))

\* a session that took an element from the list or the dict a former session
\* committed has closed: the namespace branch was at a commit with more
\* elements, and in the session itself the value had been assigned before
C39_Witness ==
    /\ hist.last = "exit" /\ hist.live = {}
    /\ Len(commits[refs["A"][Master]].parents) = 2
    /\ \/ /\ hist.expect # None /\ hist.expect[1] # <<>>
          /\ ElementsAt(commits[refs["A"][Master]].parents[1], ListName) > Len(hist.expect[1])
       \/ /\ hist.expectd # None /\ hist.expectd[1] # <<>>
          /\ ElementsAt(commits[refs["A"][Master]].parents[1], DictName) > Len(hist.expectd[1])

====
